---- MODULE Spec2Model ----
(***************************************************************************)
(* Gallery / metadata dual-write subsystem of the visionary-lab backend.   *)
(*                                                                         *)
(* The object store (Azure Blob Storage) is a map from blob names to       *)
(* blobs, one map per container.  The metadata index (Cosmos DB) is a map  *)
(* from (id, media_type) to records.  Every HTTP handler is a process that *)
(* walks through its store / index calls one call per step; each call may  *)
(* fail with a transport error.                                            *)
(*                                                                         *)
(* Strings are sequences of tokens: the separators "/", ".", " " and "_"   *)
(* are tokens of their own, every other token is a word that is never      *)
(* split ("pets/cat.png" is <<"pets", "/", "cat", ".", "png">>).  The      *)
(* string functions of the code (split, strip, startswith, endswith,       *)
(* concatenation) are computed on these sequences.                         *)
(***************************************************************************)
EXTENDS Integers, Sequences, FiniteSets, TLC

VARIABLES store, index, proc

vars == <<store, index, proc>>

----------------------------------------------------------------------------
(* Strings *)

SLASH == "/"

DOT == "."

SPACE == " "

EmptyStr == <<>>

\* s.startswith(t)
StartsWith(s, t) == Len(s) >= Len(t) /\ SubSeq(s, 1, Len(t)) = t

\* s.endswith(t)
EndsWith(s, t) == Len(s) >= Len(t) /\ SubSeq(s, Len(s) - Len(t) + 1, Len(s)) = t

\* '/' in s
HasSlash(s) == \E i \in 1..Len(s) : s[i] = SLASH

\* index of the last '/' of s, 0 when there is none
LastSlash(s) ==
    IF HasSlash(s)
    THEN CHOOSE i \in 1..Len(s) :
             s[i] = SLASH /\ \A j \in (i + 1)..Len(s) : s[j] # SLASH
    ELSE 0

\* blob_name.split('/')[-1] if '/' in blob_name else blob_name
FileName(s) == SubSeq(s, LastSlash(s) + 1, Len(s))

\* "/".join(blob_name.split("/")[:-1]) + "/" when '/' is in blob_name, else ""
CurrentFolder(s) == SubSeq(s, 1, LastSlash(s))

RECURSIVE LStrip(_)
LStrip(s) == IF s # <<>> /\ Head(s) = SPACE THEN LStrip(Tail(s)) ELSE s

RECURSIVE RStrip(_)
RStrip(s) ==
    IF s # <<>> /\ s[Len(s)] = SPACE THEN RStrip(SubSeq(s, 1, Len(s) - 1)) ELSE s

\* s.strip()
Strip(s) == RStrip(LStrip(s))

\* AzureBlobStorageService.normalize_folder_path
NormalizeOneSlash(t) == IF StartsWith(t, <<SLASH>>) THEN Tail(t) ELSE t

NormalizeTrailing(u) ==
    IF u # <<>> /\ ~EndsWith(u, <<SLASH>>) THEN u \o <<SLASH>> ELSE u

normalize_folder_path(folder_path) ==
    IF folder_path = <<>>
    THEN EmptyStr
    ELSE NormalizeTrailing(NormalizeOneSlash(Strip(folder_path)))

----------------------------------------------------------------------------
(* The object store *)

IMAGES == "images"

VIDEOS == "videos"

Containers == {IMAGES, VIDEOS}

\* Bytes of a blob: data identifies the bytes, len is their length.
NoContent == [data |-> -1, len |-> -1]

EmptyBytes == [data |-> 0, len |-> 0]

NoMeta == <<>>

Blob(content, ctype, meta) == [content |-> content, ctype |-> ctype, meta |-> meta]

\* blob_client.exists() / get_blob_properties() succeeding
BlobExists(c, k) == k \in DOMAIN store[c]

\* blob_client.upload_blob(data, overwrite=True, metadata, content_settings)
UploadBlob(st, c, k, b) == [st EXCEPT ![c] = (k :> b) @@ st[c]]

\* blob_client.delete_blob() of an existing blob
DeleteBlob(st, c, k) == [st EXCEPT ![c] = [x \in (DOMAIN st[c]) \ {k} |-> st[c][x]]]

\* AzureBlobStorageService.delete_asset: what the call gives back.  A missing
\* blob makes delete_blob raise ResourceNotFoundError, which is caught and
\* turned into False; any other error of the store (fault) leaves the method.
delete_asset(st, c, k, fault) ==
    IF fault THEN "raise"
    ELSE IF k \in DOMAIN st[c] THEN "true" ELSE "false"

\* delete_asset with a delete_blob that only marks the blob deleted
DeleteAssetStoreKeeps(st, c, k, fault) == st

\* AzureBlobStorageService.delete_asset: the store after the call
DeleteAssetStore(st, c, k, fault) ==
    IF ~fault /\ k \in DOMAIN st[c] THEN DeleteBlob(st, c, k) ELSE st

\* AzureBlobStorageService.get_asset_metadata: None when the blob is absent,
\* properties.metadata or {} otherwise
get_asset_metadata(c, k) ==
    IF BlobExists(c, k)
    THEN [found |-> TRUE, md |-> store[c][k].meta]
    ELSE [found |-> FALSE, md |-> NoMeta]

\* AzureBlobStorageService.get_asset_content: (None, None) when absent
get_asset_content(c, k) ==
    IF BlobExists(c, k)
    THEN [content |-> store[c][k].content, ctype |-> store[c][k].ctype]
    ELSE [content |-> NoContent, ctype |-> "none"]

\* Python truthiness of bytes-or-None: `not content`
NotContent(content) == content.len <= 0

\* AzureBlobStorageService.list_folders: the folder of every blob whose name
\* holds a '/', and every parent of it (every prefix that ends in a '/')
list_folders(c) ==
    UNION {{SubSeq(k, 1, j) : j \in {i \in 1..Len(k) : k[i] = SLASH}} :
              k \in DOMAIN store[c]}

FolderToken == "folder"

\* f"{normalized_folder}.folder"
FolderMarkerName(folder) == folder \o <<DOT, FolderToken>>

MarkerMeta(folder) == ("is_folder_marker" :> "true") @@ ("folder_path" :> folder)

MarkerBlob(folder) == Blob(EmptyBytes, "application/octet-stream", MarkerMeta(folder))

----------------------------------------------------------------------------
(* Requests in flight *)

\* Worker slots: one request at a time in the sequential specifications.
Procs == {1}

NoResp ==
    [status |-> 0, success |-> FALSE, moved |-> FALSE,
     background_task |-> FALSE, results |-> <<>>, total |-> 0,
     detail |-> "none"]

\* HTTPException(status_code=...)
ErrorResp(code) == [NoResp EXCEPT !.status = code]

\* History of the item a move has just finished: its name, the bytes it
\* held when its processing began, and the outcome recorded for it.
\* present and errors are the history of a batch delete: the names that
\* were in the store when the batch began, and the names whose delete_asset
\* call raised.  In a create, errors holds the blob names whose upload_blob
\* call raised, and stage is how far the asset in hand has come: "pending",
\* "store_written", "store_failed", "indexed" or "index_failed".
NoItem == [name |-> <<>>, orig |-> NoContent, ok |-> FALSE]

IdleProc ==
    [op |-> "none", pc |-> "idle", container |-> IMAGES, names |-> <<>>,
     target |-> <<>>, folder |-> <<>>, i |-> 0,
     content |-> NoContent, ctype |-> "none", meta |-> NoMeta,
     results |-> <<>>, bg |-> FALSE, ret |-> "none", resp |-> NoResp,
     orig |-> NoContent, last |-> NoItem,
     media_type |-> "none", present |-> {}, errors |-> {},
     images |-> <<>>, cosmos |-> FALSE, filename |-> <<>>,
     blob_name |-> <<>>, saved |-> <<>>, stage |-> "none",
     save_all |-> FALSE, folders |-> {},
     tags |-> <<>>, limit |-> 0, offset |-> 0, order_desc |-> TRUE,
     result |-> <<>>, marker |-> <<>>, prefix |-> <<>>,
     image_results |-> <<>>, listings |-> 0, queries |-> 0,
     elapsed_time |-> 0, polls |-> 0, job |-> "none",
     force_update |-> FALSE, containers |-> <<>>, page |-> <<>>, j |-> 0,
     tally |-> [processed |-> 0, created |-> 0, updated |-> 0, errors |-> 0],
     seen |-> <<>>]

\* A slot takes a new request when it holds none.
Free(p) == proc[p].pc = "idle"

\* A finished request leaves its slot.
Return(p) ==
    /\ proc[p].pc = "done"
    /\ proc' = [proc EXCEPT ![p] = IdleProc]
    /\ UNCHANGED <<store, index>>

\* The blob the request is working on: the only one of a single-asset
\* request, the i-th of a batch.
CurName(p) == proc[p].names[proc[p].i]

\* new_blob_name = f"{normalized_folder}{file_name}"
NewBlobName(folder, blob_name) == folder \o FileName(blob_name)

CurDest(p) == NewBlobName(proc[p].folder, CurName(p))

\* The response leaves the handler; the slot is finished.
Respond(p, r) == proc' = [proc EXCEPT ![p].pc = "done", ![p].resp = r]

\* "Determine container name": the container parameter wins, then the
\* media_type; the empty string stands for none of the two being given
ResolveContainer(container, media_type) ==
    IF container # "" THEN container
    ELSE IF media_type = "none" THEN ""
    ELSE IF media_type = "image" THEN IMAGES ELSE VIDEOS

----------------------------------------------------------------------------
(* gallery.py: PUT /move *)

\* 10 * 1024 * 1024
LargeFileBytes == 10485760

MoveSuccessResp(moved, background) ==
    [NoResp EXCEPT !.status = 200, !.success = TRUE, !.moved = moved,
                   !.background_task = background]

\* move_asset, entry: the parameters are bound and the target normalized
MoveStart(p, blob_name, container, media_type, target_folder) ==
    /\ Free(p)
    /\ proc' = [proc EXCEPT ![p] =
          [IdleProc EXCEPT !.op = "move", !.pc = "m_source",
                           !.container = container, !.media_type = media_type,
                           !.names = <<blob_name>>,
                           !.i = 1, !.target = target_folder,
                           !.folder = normalize_folder_path(target_folder)]]
    /\ UNCHANGED <<store, index>>

\* `if not metadata`: None and the empty dict are both falsy
SourceMissing(m) == ~m.found \/ m.md = NoMeta

\* move_asset, "Validate parameters", "Determine container name" and "Check
\* if source blob exists"; each HTTPException raised inside the try (400,
\* 404) is caught by `except Exception` and re-raised as a 500
MoveCheckSource(p) ==
    /\ proc[p].op = "move" /\ proc[p].pc = "m_source"
    /\ LET c == ResolveContainer(proc[p].container, proc[p].media_type)
       IN  IF CurName(p) = <<>> \/ c = ""
           THEN Respond(p, ErrorResp(500))
           ELSE \/ Respond(p, ErrorResp(500))              \* store error
                \/ IF SourceMissing(get_asset_metadata(c, CurName(p)))
                   THEN Respond(p, ErrorResp(500))
                   ELSE proc' = [proc EXCEPT
                            ![p].container = c, ![p].pc = "m_folder",
                            ![p].orig = get_asset_content(c, CurName(p)).content]
    /\ UNCHANGED <<store, index>>

\* "Check if target folder exists": list_folders (which returns [] on any
\* error) and the folder marker written when the folder is not listed
NeedsMarker(folder, folders) == folder \notin folders /\ folder # EmptyStr

EnsureFolder(p, listed, nextpc) ==
    LET c == proc[p].container
        folder == proc[p].folder
        folders == IF listed THEN list_folders(c) ELSE {}
    IN  IF NeedsMarker(folder, folders)
        THEN \/ /\ store' = UploadBlob(store, c, FolderMarkerName(folder),
                                        MarkerBlob(folder))
                /\ proc' = [proc EXCEPT ![p].pc = nextpc, ![p].folders = folders]
             \/ /\ proc' = [proc EXCEPT ![p].pc = "done",  \* store error
                                         ![p].resp = ErrorResp(500),
                                         ![p].folders = folders]
                /\ UNCHANGED store
        ELSE /\ proc' = [proc EXCEPT ![p].pc = nextpc, ![p].folders = folders]
             /\ UNCHANGED store

MoveEnsureFolder(p) ==
    /\ proc[p].op = "move" /\ proc[p].pc = "m_folder"
    /\ \E listed \in BOOLEAN : EnsureFolder(p, listed, "m_target")
    /\ UNCHANGED index

\* "Check if target already exists": the HTTPException(400) is raised inside
\* a try whose bare `except:` passes, so no outcome of the probe leaves the
\* handler
TargetCheckAbortsIfExists(exists) == exists

TargetCheckAborts(exists) == FALSE

\* "Check if source and target are the same"
SameFolder(blob_name, folder) == CurrentFolder(blob_name) = folder

\* The target step without the same-folder short-circuit
MoveCheckTargetNoShortCircuit(p) ==
    /\ proc[p].op = "move" /\ proc[p].pc = "m_target"
    /\ proc' = [proc EXCEPT ![p].pc = "m_size"]
    /\ UNCHANGED <<store, index>>

\* present is the history of the probe: the destination key, if the probe
\* found it
MoveCheckTarget(p) ==
    /\ proc[p].op = "move" /\ proc[p].pc = "m_target"
    /\ IF TargetCheckAborts(BlobExists(proc[p].container, CurDest(p)))
       THEN Respond(p, ErrorResp(500))
       ELSE IF SameFolder(CurName(p), proc[p].folder)
            THEN Respond(p, MoveSuccessResp(FALSE, FALSE))
            ELSE proc' = [proc EXCEPT ![p].pc = "m_size",
                             ![p].present =
                                 IF BlobExists(proc[p].container, CurDest(p))
                                 THEN {CurDest(p)} ELSE {}]
    /\ UNCHANGED <<store, index>>

\* use_background = len(content) > 10 * 1024 * 1024
UseBackgroundMove(content) == content.len > LargeFileBytes

\* get_asset_content for the size; len(None) raises, as does a store error.
\* A large file is answered at once and moved by the background task.
MoveReadSize(p) ==
    /\ proc[p].op = "move" /\ proc[p].pc = "m_size"
    /\ LET got == get_asset_content(proc[p].container, CurName(p))
       IN  \/ Respond(p, ErrorResp(500))                  \* store error
           \/ IF got.content = NoContent
              THEN Respond(p, ErrorResp(500))
              ELSE IF UseBackgroundMove(got.content)
                   THEN proc' = [proc EXCEPT ![p].pc = "it_read", ![p].bg = TRUE,
                                            ![p].resp = MoveSuccessResp(TRUE, TRUE)]
                   ELSE proc' = [proc EXCEPT ![p].pc = "it_read"]
    /\ UNCHANGED <<store, index>>

----------------------------------------------------------------------------
(* The copy-then-delete of one asset: gallery.py _move_asset_background,    *)
(* and the same statements in the loop bodies of batch.py                   *)
(* move_multiple_assets and _move_assets_background.                        *)

\* len(request.blob_names) > 5
BatchMoveThreshold == 5

Count(results) == Cardinality({k \in DOMAIN results : results[k]})

\* success_count, failure_count and the BatchMoveResponse / BatchDeleteResponse
BatchResp(names, results) ==
    [NoResp EXCEPT !.status = 200,
                   !.success = (Len(names) - Count(results) = 0),
                   !.results = results,
                   !.total = Len(names)]

BatchBackgroundResp(names) ==
    [NoResp EXCEPT !.status = 200, !.success = TRUE, !.results = <<>>,
                   !.total = Len(names), !.background_task = TRUE]

\* What follows the processing of the current item, whose outcome is ok:
\* _move_asset_background returns ok and move_asset, which ignores the
\* value, answers success; a batch records results[blob_name] = ok and goes
\* on with the next item, answering after the last one.
ItemNext(q, ok) ==
    LET done == [q EXCEPT !.last = [name |-> q.names[q.i], orig |-> q.orig, ok |-> ok]]
    IN  IF q.op = "move"
        THEN [done EXCEPT !.ret = IF ok THEN "true" ELSE "false",
                          !.pc = "done",
                          !.resp = IF q.bg THEN q.resp
                                   ELSE MoveSuccessResp(TRUE, FALSE)]
        ELSE LET res == (q.names[q.i] :> ok) @@ q.results
             IN  IF q.i < Len(q.names)
                 THEN [done EXCEPT !.results = res, !.i = q.i + 1, !.pc = "it_read"]
                 ELSE [done EXCEPT !.results = res, !.pc = "done",
                                   !.resp = IF q.bg THEN q.resp
                                            ELSE BatchResp(q.names, res)]

ItemEnds(p, ok) == proc' = [proc EXCEPT ![p] = ItemNext(proc[p], ok)]

IsMove(p) == proc[p].op \in {"move", "batch_move"}

\* "Get original blob content": a missing or empty content ends the item
ItemRead(p) ==
    /\ IsMove(p) /\ proc[p].pc = "it_read"
    /\ LET got == get_asset_content(proc[p].container, CurName(p))
           q == [proc[p] EXCEPT !.orig = got.content]
       IN  \/ proc' = [proc EXCEPT ![p] = ItemNext(q, FALSE)]     \* store error
           \/ IF NotContent(got.content)
              THEN proc' = [proc EXCEPT ![p] = ItemNext(q, FALSE)]
              ELSE proc' = [proc EXCEPT ![p] =
                       [q EXCEPT !.content = got.content, !.ctype = got.ctype,
                                 !.pc = "it_meta"]]
    /\ UNCHANGED <<store, index>>

\* "Get metadata": get_asset_metadata(...) or {}
ItemMeta(p) ==
    /\ IsMove(p) /\ proc[p].pc = "it_meta"
    /\ \/ ItemEnds(p, FALSE)                                      \* store error
       \/ proc' = [proc EXCEPT
              ![p].meta = get_asset_metadata(proc[p].container, CurName(p)).md,
              ![p].pc = "it_upload"]
    /\ UNCHANGED <<store, index>>

\* metadata['folder_path'] = normalized_folder
MovedMeta(meta, folder) == ("folder_path" :> folder) @@ meta

\* The copy as a read-exhausted stream would make it: no bytes arrive
CopyToDestEmpty(st, c, dest, content, ctype, meta, folder) ==
    UploadBlob(st, c, dest, Blob(EmptyBytes, ctype, MovedMeta(meta, folder)))

\* "Upload to new location", overwrite=True
CopyToDest(st, c, dest, content, ctype, meta, folder) ==
    UploadBlob(st, c, dest, Blob(content, ctype, MovedMeta(meta, folder)))

ItemUpload(p) ==
    /\ IsMove(p) /\ proc[p].pc = "it_upload"
    /\ \/ /\ ItemEnds(p, FALSE)                                   \* store error
          /\ UNCHANGED store
       \/ /\ store' = CopyToDest(store, proc[p].container, CurDest(p),
                                 proc[p].content, proc[p].ctype, proc[p].meta,
                                 proc[p].folder)
          /\ proc' = [proc EXCEPT ![p].pc = "it_delete"]
    /\ UNCHANGED index

\* "Delete original blob after successful copy"; the boolean of delete_asset
\* is dropped
ItemDelete(p) ==
    /\ IsMove(p) /\ proc[p].pc = "it_delete"
    /\ \E fault \in BOOLEAN :
          /\ store' = DeleteAssetStore(store, proc[p].container, CurName(p), fault)
          /\ ItemEnds(p, delete_asset(store, proc[p].container, CurName(p), fault)
                             # "raise")
    /\ UNCHANGED index

----------------------------------------------------------------------------
(* batch.py: POST /move *)

BatchMoveStart(p, blob_names, container, media_type, target_folder) ==
    /\ Free(p)
    /\ proc' = [proc EXCEPT ![p] =
          [IdleProc EXCEPT !.op = "batch_move", !.pc = "bm_validate",
                           !.container = container, !.media_type = media_type,
                           !.names = blob_names,
                           !.target = target_folder,
                           !.folder = normalize_folder_path(target_folder)]]
    /\ UNCHANGED <<store, index>>

\* `if not request.blob_names` and "Determine container name": either 400
\* is re-raised as a 500 by the handler
BatchMoveValidate(p) ==
    /\ proc[p].op = "batch_move" /\ proc[p].pc = "bm_validate"
    /\ LET c == ResolveContainer(proc[p].container, proc[p].media_type)
       IN  IF proc[p].names = <<>> \/ c = ""
           THEN Respond(p, ErrorResp(500))
           ELSE proc' = [proc EXCEPT ![p].container = c, ![p].pc = "bm_folder"]
    /\ UNCHANGED <<store, index>>

BatchMoveEnsureFolder(p) ==
    /\ proc[p].op = "batch_move" /\ proc[p].pc = "bm_folder"
    /\ \E listed \in BOOLEAN : EnsureFolder(p, listed, "bm_dispatch")
    /\ UNCHANGED index

\* use_background = len(request.blob_names) > 5
UseBackgroundBatchMove(names) == Len(names) > BatchMoveThreshold

BatchMoveDispatch(p) ==
    /\ proc[p].op = "batch_move" /\ proc[p].pc = "bm_dispatch"
    /\ IF UseBackgroundBatchMove(proc[p].names)
       THEN proc' = [proc EXCEPT ![p].pc = "it_read", ![p].i = 1, ![p].bg = TRUE,
                                 ![p].resp = BatchBackgroundResp(proc[p].names)]
       ELSE proc' = [proc EXCEPT ![p].pc = "it_read", ![p].i = 1]
    /\ UNCHANGED <<store, index>>

----------------------------------------------------------------------------
(* The world the move requests run in *)

CatPng == <<"cat", DOT, "png">>

DogPng == <<"dog", DOT, "png">>

GhostPng == <<"ghost", DOT, "png">>

Pets == <<"pets", SLASH>>

Toys == <<"toys", SLASH>>

\* Length of an ordinary small file
SmallLen == 4

Bytes(d) == [data |-> d, len |-> SmallLen]

LargeBytes(d) == [data |-> d, len |-> LargeFileBytes + 1]

\* Longest blob list of a batch request, before padding
MaxBatch == 2

\* The images container: an asset at the root, one of the same file name in
\* pets/ (a folder that came about by an upload, without a marker), and a
\* large asset.  No index is configured.
MoveInitStore ==
    [c \in Containers |->
        IF c = IMAGES
        THEN (CatPng :> Blob(Bytes(1), "image/png", ("prompt" :> "one")))
             @@ ((Pets \o CatPng) :>
                    Blob(Bytes(2), "image/png",
                         ("folder_path" :> Pets) @@ ("prompt" :> "two")))
             @@ (DogPng :> Blob(LargeBytes(3), "image/png", ("prompt" :> "three")))
        ELSE <<>>]

NoIndex == [available |-> FALSE, items |-> <<>>]

MoveInit ==
    /\ store = MoveInitStore
    /\ index = NoIndex
    /\ proc = [p \in Procs |-> IdleProc]

\* The images container of the batch requests: two assets of the same file
\* name, one at the root and one in pets/, and the marker of pets/.
BatchMoveInitStore ==
    [c \in Containers |->
        IF c = IMAGES
        THEN (CatPng :> Blob(Bytes(1), "image/png", ("prompt" :> "one")))
             @@ ((Pets \o CatPng) :>
                    Blob(Bytes(2), "image/png",
                         ("folder_path" :> Pets) @@ ("prompt" :> "two")))
             @@ (FolderMarkerName(Pets) :> MarkerBlob(Pets))
        ELSE <<>>]

BatchMoveInit ==
    /\ store = BatchMoveInitStore
    /\ index = NoIndex
    /\ proc = [p \in Procs |-> IdleProc]

\* container and media_type of the move requests: the container named, the
\* media type alone, and neither
MoveContainerInputs == {<<IMAGES, "none">>, <<"", "image">>, <<"", "none">>}

\* target_folder values of the requests
TargetInputs == {<<>>, <<"pets">>, <<SLASH, "toys", SLASH>>}

\* blob names a batch request may list
BatchNameInputs == {CatPng, Pets \o CatPng, GhostPng}

Lists(S, n) == UNION {[1..k -> S] : k \in 0..n}

\* The list s followed by names of missing blobs, up to length n
Padded(s, n) == s \o [j \in 1..(n - Len(s)) |-> GhostPng]

BatchMoveInputs ==
    Lists(BatchNameInputs, MaxBatch)
    \cup {Padded(s, BatchMoveThreshold + 1) : s \in Lists(BatchNameInputs, MaxBatch)}

ItemSteps(p) ==
    \/ ItemRead(p)
    \/ ItemMeta(p)
    \/ ItemUpload(p)
    \/ ItemDelete(p)

MoveNext ==
    \E p \in Procs :
        \/ \E n \in (DOMAIN store[IMAGES]) \cup {GhostPng, <<>>},
              c \in MoveContainerInputs, t \in TargetInputs :
               MoveStart(p, n, c[1], c[2], t)
        \/ MoveCheckSource(p)
        \/ MoveEnsureFolder(p)
        \/ MoveCheckTarget(p)
        \/ MoveReadSize(p)
        \/ ItemSteps(p)
        \/ Return(p)

\* Single-asset moves, one request at a time
SpecMove == MoveInit /\ [][MoveNext]_vars

BatchMoveNext ==
    \E p \in Procs :
        \/ \E l \in BatchMoveInputs, c \in MoveContainerInputs, t \in TargetInputs :
               BatchMoveStart(p, l, c[1], c[2], t)
        \/ BatchMoveValidate(p)
        \/ BatchMoveEnsureFolder(p)
        \/ BatchMoveDispatch(p)
        \/ ItemSteps(p)
        \/ Return(p)

\* Batch moves, one request at a time
SpecBatchMove == BatchMoveInit /\ [][BatchMoveNext]_vars

----------------------------------------------------------------------------
(* Properties of the moves *)

\* The blob at key k of container c holds exactly these bytes
Holds(c, k, content) == k \in DOMAIN store[c] /\ store[c][k].content = content

SrcHolds(p) == Holds(proc[p].container, CurName(p), proc[p].orig)

DestHolds(p) == Holds(proc[p].container, CurDest(p), proc[p].orig)

MoveOf(p) == proc[p].op = "move" /\ proc[p].orig # NoContent

\* At every moment of a single-asset move the source key or the destination
\* key holds the original bytes, and a move whose copy-then-delete returned
\* True left them at the destination key only.
MoveDataKept ==
    \A p \in Procs :
        MoveOf(p) =>
            /\ SrcHolds(p) \/ DestHolds(p)
            /\ proc[p].ret = "true" =>
                   DestHolds(p) /\ ~BlobExists(proc[p].container, CurName(p))

\* A step of a single-asset move that removes the source key starts from a
\* state in which the destination key already holds the original bytes.
MoveDeletesLast ==
    \A p \in Procs :
        (MoveOf(p) /\ BlobExists(proc[p].container, CurName(p))
            /\ CurName(p) \notin DOMAIN store'[proc[p].container])
        => DestHolds(p)

\* C1: for a single-asset move run without concurrent writers, whatever store
\* call fails, the source key or the destination key holds the full original
\* content in every reachable state; the source is deleted only after the
\* destination write succeeded; after a completed move the destination holds
\* the content and the source key is absent.
MoveNeverLosesData == [](MoveDataKept) /\ [][MoveDeletesLast]_vars

\* C1, witness: a move has completed, the bytes are at the destination key
\* and the source key is gone.
MoveCompletedSeen ==
    \E p \in Procs :
        /\ MoveOf(p) /\ proc[p].pc = "done" /\ proc[p].ret = "true"
        /\ DestHolds(p)
        /\ ~BlobExists(proc[p].container, CurName(p))

\* The item a batch move has just finished, in the state right after it
ItemJustDone(p) ==
    /\ proc[p].op = "batch_move"
    /\ proc[p].pc \in {"it_read", "done"}
    /\ proc[p].last.orig # NoContent

\* C2: every item of a batch move, also one whose folder already is the
\* normalized target folder, still has its content at its source key or at
\* its destination key once the item has been processed.
BatchMoveKeepsItems ==
    \A p \in Procs :
        ItemJustDone(p) =>
            \/ Holds(proc[p].container, proc[p].last.name, proc[p].last.orig)
            \/ Holds(proc[p].container,
                     NewBlobName(proc[p].folder, proc[p].last.name),
                     proc[p].last.orig)

\* A single-asset move that has not made its own copy yet
BeforeCopy(p) ==
    /\ proc[p].op = "move"
    /\ proc[p].pc \in {"m_folder", "m_target", "m_size", "it_read", "it_meta", "it_upload"}

\* Another asset already sits at the destination key of the move
DestTaken(p) ==
    /\ CurDest(p) # CurName(p)
    /\ BlobExists(proc[p].container, CurDest(p))
    /\ BlobExists(proc[p].container, CurName(p))

\* C3: when a blob already exists at the destination key, the move writes
\* nothing there and deletes nothing: the asset at the destination and the
\* source asset keep their content and metadata.
MoveNeverOverwrites ==
    [][\A p \in Procs :
          (BeforeCopy(p) /\ DestTaken(p)) =>
              /\ BlobExists(proc[p].container, CurDest(p))'
              /\ store'[proc[p].container][CurDest(p)]
                     = store[proc[p].container][CurDest(p)]
              /\ CurName(p) \in DOMAIN store'[proc[p].container]
              /\ store'[proc[p].container][CurName(p)]
                     = store[proc[p].container][CurName(p)]]_vars

----------------------------------------------------------------------------
(* The metadata index *)

\* Records are kept per partition (media_type) and id.
IndexKey(media_type, id) == <<media_type, id>>

\* s.split(".")[0]
BeforeFirstDot(s) ==
    IF \E i \in 1..Len(s) : s[i] = DOT
    THEN SubSeq(s, 1, (CHOOSE i \in 1..Len(s) :
                          s[i] = DOT /\ \A j \in 1..(i - 1) : s[j] # DOT) - 1)
    ELSE s

\* asset_id = result["blob_name"].split(".")[0].split("/")[-1]
AssetId(blob_name) == FileName(BeforeFirstDot(blob_name))

\* The media_type the create paths give the records of a container
MediaTypeOf(container) == IF container = IMAGES THEN "image" ELSE "video"

\* The document of an asset: the fields that tie it to its blob
AssetRecord(blob_name, container, folder) ==
    [id |-> AssetId(blob_name), media_type |-> MediaTypeOf(container),
     blob_name |-> blob_name, container |-> container, folder_path |-> folder]

RecordKey(blob_name, container) ==
    IndexKey(MediaTypeOf(container), AssetId(blob_name))

\* An index record for the asset is present
HasRecord(blob_name, container) ==
    RecordKey(blob_name, container) \in DOMAIN index.items

----------------------------------------------------------------------------
(* gallery.py: DELETE /delete *)

DeleteStart(p, blob_name, container, media_type) ==
    /\ Free(p)
    /\ proc' = [proc EXCEPT ![p] =
          [IdleProc EXCEPT !.op = "delete", !.pc = "d_container",
                           !.container = container, !.media_type = media_type,
                           !.names = <<blob_name>>, !.i = 1]]
    /\ UNCHANGED <<store, index>>

\* The 400 of the handler is an HTTPException and is re-raised as it is
DeleteResolve(p) ==
    /\ proc[p].op = "delete" /\ proc[p].pc = "d_container"
    /\ LET c == ResolveContainer(proc[p].container, proc[p].media_type)
       IN  IF c = ""
           THEN Respond(p, ErrorResp(400))
           ELSE proc' = [proc EXCEPT ![p].container = c, ![p].pc = "d_delete",
                                    ![p].orig = get_asset_content(c, CurName(p)).content]
    /\ UNCHANGED <<store, index>>

\* AssetDeleteResponse(success=True, ...)
DeleteSuccessResp == [NoResp EXCEPT !.status = 200, !.success = TRUE]

\* A handler that hands the boolean of delete_asset back in a 200 answer
DeleteRespBoolean(outcome) ==
    IF outcome = "raise" THEN ErrorResp(500)
    ELSE [NoResp EXCEPT !.status = 200, !.success = (outcome = "true")]

\* What the handler answers for an outcome of azure_storage_service.delete_asset:
\* `if not success: raise HTTPException(404)`, any other exception a 500
DeleteResp(outcome) ==
    IF outcome = "true" THEN DeleteSuccessResp
    ELSE IF outcome = "false" THEN ErrorResp(404)
    ELSE ErrorResp(500)

\* "Delete from Azure Blob Storage": the only call the handler makes
DeleteAsset(p) ==
    /\ proc[p].op = "delete" /\ proc[p].pc = "d_delete"
    /\ \E fault \in BOOLEAN :
          LET outcome == delete_asset(store, proc[p].container, CurName(p), fault)
          IN  /\ store' = DeleteAssetStore(store, proc[p].container, CurName(p), fault)
              /\ proc' = [proc EXCEPT ![p].pc = "done", ![p].ret = outcome,
                                       ![p].resp = DeleteResp(outcome)]
    /\ UNCHANGED index

----------------------------------------------------------------------------
(* batch.py: POST /delete *)

\* len(request.blob_names) > 10
BatchDeleteThreshold == 10

BatchDeleteStart(p, blob_names, container, media_type) ==
    /\ Free(p)
    /\ proc' = [proc EXCEPT ![p] =
          [IdleProc EXCEPT !.op = "batch_delete", !.pc = "bd_validate",
                           !.container = container, !.media_type = media_type,
                           !.names = blob_names]]
    /\ UNCHANGED <<store, index>>

\* `if not request.blob_names`: the handler has no `except HTTPException`,
\* so its own 400 leaves as a 500
BatchDeleteValidate(p) ==
    /\ proc[p].op = "batch_delete" /\ proc[p].pc = "bd_validate"
    /\ IF proc[p].names = <<>>
       THEN Respond(p, ErrorResp(500))
       ELSE proc' = [proc EXCEPT ![p].pc = "bd_container"]
    /\ UNCHANGED <<store, index>>

BatchDeleteResolve(p) ==
    /\ proc[p].op = "batch_delete" /\ proc[p].pc = "bd_container"
    /\ LET c == ResolveContainer(proc[p].container, proc[p].media_type)
       IN  IF c = ""
           THEN Respond(p, ErrorResp(500))
           ELSE proc' = [proc EXCEPT
                    ![p].container = c, ![p].pc = "bd_dispatch",
                    ![p].present = {proc[p].names[j] : j \in 1..Len(proc[p].names)}
                                   \cap DOMAIN store[c]]
    /\ UNCHANGED <<store, index>>

\* A dispatch that sends a batch of exactly the threshold to the background
UseBackgroundAtThreshold(names) == Len(names) >= BatchDeleteThreshold

\* use_background = len(request.blob_names) > 10
UseBackgroundBatchDelete(names) == Len(names) > BatchDeleteThreshold

BatchDeleteDispatch(p) ==
    /\ proc[p].op = "batch_delete" /\ proc[p].pc = "bd_dispatch"
    /\ IF UseBackgroundBatchDelete(proc[p].names)
       THEN proc' = [proc EXCEPT ![p].pc = "bd_item", ![p].i = 1, ![p].bg = TRUE,
                                 ![p].resp = BatchBackgroundResp(proc[p].names)]
       ELSE proc' = [proc EXCEPT ![p].pc = "bd_item", ![p].i = 1]
    /\ UNCHANGED <<store, index>>

\* The loop of _delete_assets_background wraps each delete_asset call in a
\* try and records False for an item whose call raised; the loop of
\* delete_multiple_assets does not.
ItemErrorCaught(background) == background

\* One turn of the loop, for an outcome of delete_asset: the item is
\* recorded and the loop goes on, or the exception leaves the loop and the
\* handler answers 500.
DeleteItemNext(q, outcome) ==
    LET noted == IF outcome = "raise"
                 THEN [q EXCEPT !.errors = q.errors \cup {q.names[q.i]}]
                 ELSE q
        res == (q.names[q.i] :> (outcome = "true")) @@ q.results
    IN  IF outcome = "raise" /\ ~ItemErrorCaught(q.bg)
        THEN [noted EXCEPT !.pc = "done", !.resp = ErrorResp(500)]
        ELSE IF q.i < Len(q.names)
             THEN [noted EXCEPT !.results = res, !.i = q.i + 1]
             ELSE [noted EXCEPT !.results = res, !.pc = "done",
                                !.resp = IF q.bg THEN q.resp
                                         ELSE BatchResp(q.names, res)]

BatchDeleteItem(p) ==
    /\ proc[p].op = "batch_delete" /\ proc[p].pc = "bd_item"
    /\ \E fault \in BOOLEAN :
          LET outcome == delete_asset(store, proc[p].container, CurName(p), fault)
          IN  /\ store' = DeleteAssetStore(store, proc[p].container, CurName(p), fault)
              /\ proc' = [proc EXCEPT ![p] = DeleteItemNext(proc[p], outcome)]
    /\ UNCHANGED index

----------------------------------------------------------------------------
(* The world the delete requests run in *)

ClipMp4 == <<"clip", DOT, "mp4">>

\* Two images, one of them in pets/, and a video
DeleteInitStore ==
    [c \in Containers |->
        IF c = IMAGES
        THEN (CatPng :> Blob(Bytes(1), "image/png", ("prompt" :> "one")))
             @@ ((Pets \o DogPng) :>
                    Blob(Bytes(2), "image/png",
                         ("folder_path" :> Pets) @@ ("prompt" :> "two")))
        ELSE (ClipMp4 :> Blob(Bytes(3), "video/mp4", ("prompt" :> "three")))]

\* The index is configured and holds the record of every asset
DeleteInitIndex ==
    [available |-> TRUE,
     items |-> (RecordKey(CatPng, IMAGES) :> AssetRecord(CatPng, IMAGES, EmptyStr))
               @@ (RecordKey(Pets \o DogPng, IMAGES)
                      :> AssetRecord(Pets \o DogPng, IMAGES, Pets))
               @@ (RecordKey(ClipMp4, VIDEOS) :> AssetRecord(ClipMp4, VIDEOS, EmptyStr))]

DeleteInit ==
    /\ store = DeleteInitStore
    /\ index = DeleteInitIndex
    /\ proc = [p \in Procs |-> IdleProc]

\* blob names of the delete requests: the assets and a name never stored
DeleteNameInputs == {CatPng, Pets \o DogPng, ClipMp4, GhostPng}

ContainerInputs == {"", IMAGES, VIDEOS}

MediaTypeInputs == {"none", "image", "video"}

BatchDeleteInputs ==
    Lists(DeleteNameInputs, MaxBatch)
    \cup {Padded(s, BatchDeleteThreshold + 1) : s \in Lists(DeleteNameInputs, MaxBatch)}

DeleteNext ==
    \E p \in Procs :
        \/ \E n \in DeleteNameInputs, c \in ContainerInputs, m \in MediaTypeInputs :
               DeleteStart(p, n, c, m)
        \/ DeleteResolve(p)
        \/ DeleteAsset(p)
        \/ \E l \in BatchDeleteInputs, c \in ContainerInputs, m \in MediaTypeInputs :
               BatchDeleteStart(p, l, c, m)
        \/ BatchDeleteValidate(p)
        \/ BatchDeleteResolve(p)
        \/ BatchDeleteDispatch(p)
        \/ BatchDeleteItem(p)
        \/ Return(p)

\* Single and batch deletes, one request at a time
SpecDelete == DeleteInit /\ [][DeleteNext]_vars

----------------------------------------------------------------------------
(* Properties of the deletes *)

\* A finished single-asset delete whose delete_asset call was made
DeleteDone(p) ==
    proc[p].op = "delete" /\ proc[p].pc = "done" /\ proc[p].ret # "none"

\* A finished synchronous batch delete that got as far as its loop
SyncBatchDeleteDone(p) ==
    /\ proc[p].op = "batch_delete" /\ proc[p].pc = "done"
    /\ ~proc[p].bg /\ proc[p].i >= 1

\* C7: after a delete that removed the blob while the index was available,
\* no index record of that asset remains (the record's delete comes first,
\* the blob's delete second).
DeleteRemovesRecord ==
    \A p \in Procs :
        /\ (DeleteDone(p) /\ proc[p].ret = "true" /\ index.available)
               => ~HasRecord(CurName(p), proc[p].container)
        /\ (SyncBatchDeleteDone(p) /\ index.available)
               => \A n \in DOMAIN proc[p].results :
                      proc[p].results[n] => ~HasRecord(n, proc[p].container)

\* C8: delete_asset on an absent key returns false without raising and
\* leaves the store as it is, also when repeated; on a present key it
\* returns true, removes the key, and every later delete of the key returns
\* false and changes nothing.
DeleteIdempotent ==
    \A c \in Containers, k \in DeleteNameInputs :
        LET once == DeleteAssetStore(store, c, k, FALSE)
            twice == DeleteAssetStore(once, c, k, FALSE)
        IN  /\ k \notin DOMAIN store[c] =>
                  /\ delete_asset(store, c, k, FALSE) = "false"
                  /\ once = store
                  /\ delete_asset(once, c, k, FALSE) = "false"
            /\ k \in DOMAIN store[c] =>
                  /\ delete_asset(store, c, k, FALSE) = "true"
                  /\ k \notin DOMAIN once[c]
                  /\ \A x \in (DOMAIN store[c]) \ {k} :
                         x \in DOMAIN once[c] /\ once[c][x] = store[c][x]
                  /\ delete_asset(once, c, k, FALSE) = "false"
                  /\ twice = once
                  /\ delete_asset(twice, c, k, FALSE) = "false"

\* C8, witness: a key that was stored has been deleted, and a later delete
\* request for it got false from delete_asset.
SecondDeleteSeen ==
    \E p \in Procs :
        /\ DeleteDone(p) /\ proc[p].ret = "false"
        /\ CurName(p) \in DOMAIN DeleteInitStore[proc[p].container]
        /\ CurName(p) \notin DOMAIN store[proc[p].container]

\* C9 as stated: the single-asset delete hands the boolean of the store's
\* delete back to the caller, and false (blob already absent) is not
\* answered as an error.
DeleteFalseNotError ==
    \A p \in Procs :
        (DeleteDone(p) /\ proc[p].ret \in {"true", "false"}) =>
            /\ proc[p].resp.status = 200
            /\ proc[p].resp.success = (proc[p].ret = "true")

\* C9, amended: the single-asset delete answers success exactly when the
\* store's delete returned true, and then the blob is gone; a false result
\* (blob already absent) is answered as a 404 NotFound error, and any other
\* error of the store as a 500.
DeleteAnswersOutcome ==
    \A p \in Procs :
        DeleteDone(p) =>
            /\ proc[p].ret = "true" =>
                   /\ proc[p].resp.status = 200 /\ proc[p].resp.success
                   /\ ~BlobExists(proc[p].container, CurName(p))
            /\ proc[p].ret = "false" =>
                   proc[p].resp.status = 404 /\ ~proc[p].resp.success
            /\ proc[p].ret = "raise" =>
                   proc[p].resp.status = 500 /\ ~proc[p].resp.success

\* C9, witness: a delete of an absent blob has been answered with the 404.
DeleteOfAbsentSeen ==
    \E p \in Procs :
        /\ DeleteDone(p) /\ proc[p].ret = "false"
        /\ proc[p].resp.status = 404
        /\ ~BlobExists(proc[p].container, CurName(p))

Distinct(names) ==
    \A a, b \in 1..Len(names) : names[a] = names[b] => a = b

\* C10: a synchronous batch delete of N distinct names is never aborted by
\* the failure of an item (a missing key, or a store error raised while it
\* is deleted): the answer is the per-item map, false for exactly the failed
\* items and true for the others, with total N, and every item that did not
\* fail is gone from the store.
BatchDeleteIndependent ==
    \A p \in Procs :
        (SyncBatchDeleteDone(p) /\ Distinct(proc[p].names)) =>
            /\ proc[p].resp.status = 200
            /\ proc[p].resp.total = Len(proc[p].names)
            /\ DOMAIN proc[p].resp.results
                   = {proc[p].names[j] : j \in 1..Len(proc[p].names)}
            /\ \A n \in DOMAIN proc[p].resp.results :
                   /\ proc[p].resp.results[n]
                          = (n \in proc[p].present /\ n \notin proc[p].errors)
                   /\ n \notin proc[p].errors
                          => n \notin DOMAIN store[proc[p].container]

----------------------------------------------------------------------------
(* Creating assets: azure_storage.py upload_asset and cosmos_client.py      *)
(* create_asset_metadata                                                    *)

\* get_cosmos_service: the service, or None when the index is not
\* configured or its constructor raises
get_cosmos_service(configured, constructs) == configured /\ constructs

\* os.path.splitext(file.filename): the position of the last dot, 0 if none
LastDot(s) ==
    IF \E i \in 1..Len(s) : s[i] = DOT
    THEN CHOOSE i \in 1..Len(s) : s[i] = DOT /\ \A j \in (i + 1)..Len(s) : s[j] # DOT
    ELSE 0

SplitExtStem(s) == IF LastDot(s) = 0 THEN s ELSE SubSeq(s, 1, LastDot(s) - 1)

SplitExtExt(s) == IF LastDot(s) = 0 THEN <<>> ELSE SubSeq(s, LastDot(s), Len(s))

UNDERSCORE == "_"

\* A name that leaves the folder out
PlainBlobNameAtRoot(folder, filename) ==
    SplitExtStem(filename) \o SplitExtExt(filename)

\* blob_name = f"{normalized_folder_path}{filename_without_ext}{ext}"
PlainBlobName(folder, filename) ==
    folder \o SplitExtStem(filename) \o SplitExtExt(filename)

\* blob_name = f"{normalized_folder_path}{filename_without_ext}_{unique_suffix}{ext}"
SuffixedBlobName(folder, filename, unique_suffix) ==
    folder \o SplitExtStem(filename) \o <<UNDERSCORE, unique_suffix>>
           \o SplitExtExt(filename)

\* The metadata upload_asset stores with the blob: the caller's values and
\* the folder_path when the folder is not the root
UploadMeta(metadata, folder) ==
    IF folder # EmptyStr THEN ("folder_path" :> folder) @@ metadata ELSE metadata

\* CosmosDBService.create_asset_metadata: container.create_item refuses an
\* id its partition already holds, and any error of the index is raised
CreateRefused(items, rec, fault) ==
    fault \/ IndexKey(rec.media_type, rec.id) \in DOMAIN items

create_asset_metadata(items, rec, fault) ==
    IF CreateRefused(items, rec, fault) THEN items
    ELSE (IndexKey(rec.media_type, rec.id) :> rec) @@ items

\* _get_content_type, for the extensions of the model
get_content_type(extension, asset_type) ==
    IF asset_type = "image" /\ extension = <<DOT, "png">> THEN "image/png"
    ELSE IF asset_type = "video" /\ extension = <<DOT, "mp4">> THEN "video/mp4"
    ELSE "application/octet-stream"

----------------------------------------------------------------------------
(* images.py: POST /save *)

\* str(idx + 1)
IdxStr(i) == <<"1", "2", "3", "4">>[i]

\* The file name of image idx of count: the generated name, with _{idx+1}
\* put before its suffix when there are several images, or the fallback
\* generated_image_{idx+1}.png when no name was generated
SaveFileName(generated, idx, count) ==
    IF generated # <<>>
    THEN IF count > 1
         THEN SplitExtStem(generated) \o <<UNDERSCORE, IdxStr(idx)>>
                 \o SplitExtExt(generated)
         ELSE generated
    ELSE <<"generated_image", UNDERSCORE, IdxStr(idx), DOT, "png">>

\* An entry of saved_images, with the bytes that were uploaded and how far
\* the asset came
SavedEntry(q) ==
    [blob_name |-> q.blob_name, container |-> q.container,
     folder_path |-> q.folder, content |-> q.content, stage |-> q.stage]

\* ImageSaveResponse(success=True, saved_images=..., total_saved=...)
SaveSuccessResp(saved) ==
    [NoResp EXCEPT !.status = 200, !.success = TRUE, !.results = saved,
                   !.total = Len(saved)]

\* The loop goes on with the next image, or the handler answers
SaveNextImage(q, saved) ==
    IF q.i < Len(q.images)
    THEN [q EXCEPT !.saved = saved, !.i = q.i + 1, !.pc = "s_prepare",
                   !.stage = "none"]
    ELSE [q EXCEPT !.saved = saved, !.pc = "done", !.resp = SaveSuccessResp(saved)]

\* An exception that reaches `except Exception` of the handler: HTTP 500.
\* cause names what raised: "input" or "store".
SaveFails(q, cause) == [q EXCEPT !.pc = "done", !.ret = cause, !.resp = ErrorResp(500)]

SaveStart(p, images, folder_path, save_all, constructs) ==
    /\ Free(p)
    /\ proc' = [proc EXCEPT ![p] =
          [IdleProc EXCEPT !.op = "save", !.pc = "s_validate",
                           !.container = IMAGES, !.images = images,
                           !.target = folder_path, !.save_all = save_all,
                           !.cosmos = get_cosmos_service(index.available, constructs)]]
    /\ UNCHANGED <<store, index>>

\* `if not images_data` (the 400 leaves as a 500); `if not request.save_all:
\* images_data = [images_data[0]]`
SaveValidate(p) ==
    /\ proc[p].op = "save" /\ proc[p].pc = "s_validate"
    /\ IF proc[p].images = <<>>
       THEN proc' = [proc EXCEPT ![p] = SaveFails(proc[p], "input")]
       ELSE proc' = [proc EXCEPT
                ![p].images = IF proc[p].save_all THEN proc[p].images
                              ELSE <<proc[p].images[1]>>,
                ![p].i = 1, ![p].pc = "s_prepare"]
    /\ UNCHANGED <<store, index>>

\* One image of the response is turned into a file and a file name.  An
\* entry that is neither b64_json nor url, and a url whose download is not
\* answered 200, are skipped; bytes PIL cannot open raise.
SavePrepare(p) ==
    /\ proc[p].op = "save" /\ proc[p].pc = "s_prepare"
    /\ LET q == proc[p]
           d == q.images[q.i]
       IN  \/ /\ d.kind # "b64_json"                     \* skipped
              /\ proc' = [proc EXCEPT ![p] = SaveNextImage(q, q.saved)]
           \/ /\ d.kind \in {"b64_json", "url"}
              /\ proc' = [proc EXCEPT ![p] = SaveFails(q, "input")]
           \/ /\ d.kind \in {"b64_json", "url"}
              /\ \E generated \in {<<>>, CatPng} :
                    proc' = [proc EXCEPT ![p] =
                        [q EXCEPT !.filename =
                                      SaveFileName(generated, q.i, Len(q.images)),
                                  !.content = Bytes(d.data),
                                  !.meta = ("image_index" :> IdxStr(q.i)),
                                  !.stage = "pending", !.pc = "s_name"]]
    /\ UNCHANGED <<store, index>>

\* upload_asset with the index step ahead of the store's write
SaveAfterNameIndexFirst(q, blob_name) ==
    [q EXCEPT !.blob_name = blob_name, !.pc = "s_index"]

\* upload_asset goes on to read the file and to upload it
SaveAfterName(q, blob_name) ==
    [q EXCEPT !.blob_name = blob_name, !.pc = "s_upload"]

\* Hexadecimal prefixes str(uuid.uuid4())[:8] may give
UuidInputs == {"u1"}

\* upload_asset, the name: the folder-prefixed file name, and a uuid suffix
\* when blob_client.exists() finds the name taken
SaveName(p) ==
    /\ proc[p].op = "save" /\ proc[p].pc = "s_name"
    /\ LET q == [proc[p] EXCEPT !.folder = normalize_folder_path(proc[p].target)]
           plain == PlainBlobName(q.folder, q.filename)
       IN  \/ proc' = [proc EXCEPT ![p] =               \* store error
                  SaveFails([q EXCEPT !.stage = "store_failed"], "store")]
           \/ IF BlobExists(q.container, plain)
              THEN \E u \in UuidInputs :
                      proc' = [proc EXCEPT ![p] =
                          SaveAfterName(q, SuffixedBlobName(q.folder, q.filename, u))]
              ELSE proc' = [proc EXCEPT ![p] = SaveAfterName(q, plain)]
    /\ UNCHANGED <<store, index>>

\* upload_asset, blob_client.upload_blob(..., overwrite=True); its exception
\* is re-raised and leaves the handler as a 500
SaveUpload(p) ==
    /\ proc[p].op = "save" /\ proc[p].pc = "s_upload"
    /\ LET q == proc[p]
       IN  \/ /\ proc' = [proc EXCEPT ![p] =           \* store error
                    SaveFails([q EXCEPT !.stage = "store_failed",
                                        !.errors = q.errors \cup {q.blob_name}],
                              "store")]
              /\ UNCHANGED store
           \/ /\ store' = UploadBlob(store, q.container, q.blob_name,
                     Blob(q.content,
                          get_content_type(SplitExtExt(q.filename), "image"),
                          UploadMeta(q.meta, q.folder)))
              /\ proc' = [proc EXCEPT ![p].stage = "store_written",
                                       ![p].present = q.present \cup {q.blob_name},
                                       ![p].pc = "s_index"]
    /\ UNCHANGED index

\* A handler that lets the exception of the index leave
SaveIndexNextStrict(q, created) ==
    IF created
    THEN SaveNextImage([q EXCEPT !.stage = "indexed"],
                       Append(q.saved, SavedEntry([q EXCEPT !.stage = "indexed"])))
    ELSE [q EXCEPT !.stage = "index_failed", !.pc = "done",
                   !.resp = ErrorResp(500)]

\* After the index call: its exception is logged as a warning, and
\* saved_images.append(result) follows in either case
SaveIndexNext(q, created) ==
    LET r == [q EXCEPT !.stage = IF created THEN "indexed" ELSE "index_failed"]
    IN  SaveNextImage(r, Append(r.saved, SavedEntry(r)))

\* `if cosmos_service:` create_asset_metadata; then the append
SaveIndex(p) ==
    /\ proc[p].op = "save" /\ proc[p].pc = "s_index"
    /\ LET q == proc[p]
           rec == AssetRecord(q.blob_name, q.container, q.folder)
       IN  IF ~q.cosmos
           THEN /\ proc' = [proc EXCEPT ![p] =
                       SaveNextImage(q, Append(q.saved, SavedEntry(q)))]
                /\ UNCHANGED index
           ELSE \E fault \in BOOLEAN :
                   /\ index' = [index EXCEPT !.items =
                                   create_asset_metadata(index.items, rec, fault)]
                   /\ proc' = [proc EXCEPT ![p] =
                          SaveIndexNext(q, ~CreateRefused(index.items, rec, fault))]
    /\ UNCHANGED store

----------------------------------------------------------------------------
(* videos.py: create_video_generation_with_analysis, from the succeeded job *)
(* on: the analysis of each generation, its upload to the gallery and its   *)
(* index record                                                             *)

\* base_filename: the generated prefix with _{gen_id}.mp4, or the sanitized
\* prompt with _{generation_id}.mp4 when the generation of the name failed
VideoFileName(generated, generation_id) ==
    (IF generated THEN <<"clip">> ELSE <<"prompt">>)
        \o <<UNDERSCORE, generation_id, DOT, "mp4">>

\* `if folder_path and folder_path != "root"`: the normalized folder;
\* otherwise the root
VideoFolder(folder_path) ==
    IF folder_path # <<>> /\ folder_path # <<"root">>
    THEN normalize_folder_path(folder_path)
    ELSE EmptyStr

\* VideoGenerationWithAnalysisResponse(job, analysis_results, None)
VideoResp(analysed) ==
    [NoResp EXCEPT !.status = 200, !.success = TRUE, !.total = analysed]

\* The loop over job_response.generations goes on, or the handler answers
VideoNextGeneration(q) ==
    IF q.i < Len(q.names)
    THEN [q EXCEPT !.i = q.i + 1, !.pc = "v_analyze", !.stage = "none"]
    ELSE [q EXCEPT !.pc = "done", !.resp = VideoResp(Len(q.results))]

VideoStart(p, generations, folder_path, analyze_video, constructs) ==
    /\ Free(p)
    /\ proc' = [proc EXCEPT ![p] =
          [IdleProc EXCEPT !.op = "video", !.pc = "v_job",
                           !.container = VIDEOS, !.names = generations,
                           !.target = folder_path, !.bg = analyze_video,
                           !.cosmos = get_cosmos_service(index.available, constructs)]]
    /\ UNCHANGED <<store, index>>

\* max_wait_time = 300
MaxWaitTime == 300

\* poll_interval = 5
PollInterval == 5

\* "Step 1: Create the video generation job": the clients are there and the
\* job is created, or the exception leaves the handler as a 500.  job is
\* the state of the external job, polls the number of status calls made.
VideoCreateJob(p) ==
    /\ proc[p].op = "video" /\ proc[p].pc = "v_job"
    /\ \/ Respond(p, ErrorResp(500))
       \/ proc' = [proc EXCEPT ![p].pc = "v_poll", ![p].job = "running",
                                ![p].elapsed_time = 0]
    /\ UNCHANGED <<store, index>>

\* A handler that cancels the job it gave up waiting for
VideoTimedOutCancels(q) ==
    [q EXCEPT !.pc = "done", !.job = "cancelled",
              !.resp = [ErrorResp(500) EXCEPT !.detail = "timed_out"]]

\* `if job_response.status != "succeeded": raise HTTPException(408, "Video
\* generation timed out")`, which `except Exception` re-raises as a 500 with
\* the same message
VideoTimedOut(q) ==
    [q EXCEPT !.pc = "done",
              !.resp = [ErrorResp(500) EXCEPT !.detail = "timed_out"]]

\* One turn of `while elapsed_time < max_wait_time`: the status call, the
\* break on "succeeded", the HTTPException on "failed", else the sleep; and
\* the check after the loop
VideoPoll(p) ==
    /\ proc[p].op = "video" /\ proc[p].pc = "v_poll"
    /\ LET q == proc[p]
       IN  IF q.elapsed_time < MaxWaitTime
           THEN \/ proc' = [proc EXCEPT ![p] =             \* the call raises
                       [q EXCEPT !.polls = q.polls + 1, !.pc = "done",
                                 !.resp = ErrorResp(500)]]
                \/ \E status \in {"running", "succeeded", "failed"} :
                      proc' = [proc EXCEPT ![p] =
                         IF status = "succeeded"
                         THEN [q EXCEPT !.polls = q.polls + 1, !.job = status,
                                        !.pc = "v_begin"]
                         ELSE IF status = "failed"
                         THEN [q EXCEPT !.polls = q.polls + 1, !.job = status,
                                        !.pc = "done",
                                        !.resp = [ErrorResp(500) EXCEPT
                                                     !.detail = "failed"]]
                         ELSE [q EXCEPT !.polls = q.polls + 1,
                                        !.elapsed_time = q.elapsed_time
                                                            + PollInterval]]
           ELSE proc' = [proc EXCEPT ![p] = VideoTimedOut(q)]
    /\ UNCHANGED <<store, index>>

\* `if req.analyze_video and job_response.generations`; elapsed_time is not
\* read after the loop
VideoBegin(p) ==
    /\ proc[p].op = "video" /\ proc[p].pc = "v_begin"
    /\ LET q == [proc[p] EXCEPT !.elapsed_time = 0, !.polls = 0]
       IN  IF q.bg /\ q.names # <<>>
           THEN proc' = [proc EXCEPT ![p] = [q EXCEPT !.pc = "v_analyze", !.i = 1]]
           ELSE proc' = [proc EXCEPT ![p] =
                            [q EXCEPT !.pc = "done", !.resp = VideoResp(0)]]
    /\ UNCHANGED <<store, index>>

\* Download and analysis of one generation; an exception here is logged
\* and the loop continues with the next generation
VideoAnalyze(p) ==
    /\ proc[p].op = "video" /\ proc[p].pc = "v_analyze"
    /\ LET q == proc[p]
       IN  \/ proc' = [proc EXCEPT ![p] = VideoNextGeneration(q)]
           \/ \E generated \in BOOLEAN :
                 LET folder == VideoFolder(q.target)
                     base == VideoFileName(generated, CurName(p))
                 IN  proc' = [proc EXCEPT ![p] =
                         [q EXCEPT !.results = Append(q.results, CurName(p)),
                                   !.filename = base, !.folder = folder,
                                   !.blob_name = folder \o base,
                                   !.content = Bytes(q.i),
                                   !.meta = ("generation_id" :> CurName(p))
                                            @@ ("analyzed" :> "true"),
                                   !.stage = "pending", !.pc = "v_upload"]]
    /\ UNCHANGED <<store, index>>

\* What follows an exception of the upload: `except Exception as
\* upload_error: logger.warning(...)`, and the loop goes on
VideoUploadFailed(q) ==
    VideoNextGeneration([q EXCEPT !.stage = "store_failed",
                                  !.errors = q.errors \cup {q.blob_name}])

\* blob_client.upload_blob(data=video_file, ..., overwrite=True)
VideoUpload(p) ==
    /\ proc[p].op = "video" /\ proc[p].pc = "v_upload"
    /\ LET q == proc[p]
       IN  \/ /\ proc' = [proc EXCEPT ![p] = VideoUploadFailed(q)]   \* store error
              /\ UNCHANGED store
           \/ /\ store' = UploadBlob(store, VIDEOS, q.blob_name,
                     Blob(q.content, "video/mp4", UploadMeta(q.meta, q.folder)))
              /\ proc' = [proc EXCEPT ![p].stage = "store_written",
                                       ![p].present = q.present \cup {q.blob_name},
                                       ![p].pc = "v_index"]
    /\ UNCHANGED index

\* `if cosmos_service:` create_asset_metadata, its exception logged
VideoIndex(p) ==
    /\ proc[p].op = "video" /\ proc[p].pc = "v_index"
    /\ LET q == proc[p]
           rec == AssetRecord(q.blob_name, VIDEOS, q.folder)
       IN  IF ~q.cosmos
           THEN /\ proc' = [proc EXCEPT ![p] = VideoNextGeneration(q)]
                /\ UNCHANGED index
           ELSE \E fault \in BOOLEAN :
                   /\ index' = [index EXCEPT !.items =
                                   create_asset_metadata(index.items, rec, fault)]
                   /\ proc' = [proc EXCEPT ![p] =
                          VideoNextGeneration(
                              [q EXCEPT !.stage =
                                  IF CreateRefused(index.items, rec, fault)
                                  THEN "index_failed" ELSE "indexed"])]
    /\ UNCHANGED store

----------------------------------------------------------------------------
(* The world the create requests run in *)

\* Most blobs the two containers hold together when a create is accepted
MaxBlobs == 2

\* Most images of a generation response, and most generations of a job
MaxItems == 2

BlobCount == Cardinality(DOMAIN store[IMAGES]) + Cardinality(DOMAIN store[VIDEOS])

\* The images container holds an asset whose name a save may ask for
CreateInitStore ==
    [c \in Containers |->
        IF c = IMAGES
        THEN (CatPng :> Blob(Bytes(1), "image/png", ("prompt" :> "one")))
        ELSE <<>>]

\* The index is configured and holds the record of that asset, or is not
\* configured
CreateInit ==
    /\ store = CreateInitStore
    /\ index \in {NoIndex,
                  [available |-> TRUE,
                   items |-> (RecordKey(CatPng, IMAGES)
                                 :> AssetRecord(CatPng, IMAGES, EmptyStr))]}
    /\ proc = [p \in Procs |-> IdleProc]

\* Entries of imgen_model_response["data"]
ImageDataInputs ==
    {[kind |-> k, data |-> d] : k \in {"b64_json", "url"}, d \in {5}}

GenerationIds == <<"g1", "g2", "g3", "g4">>

\* job_response.generations: distinct ids
GenerationInputs == {SubSeq(GenerationIds, 1, n) : n \in 0..MaxItems}

SaveFolderInputs == {<<>>, <<"pets">>}

\* req.metadata["folder"]
VideoFolderInputs == {<<"root">>, <<"pets">>}

CreateNext ==
    \E p \in Procs :
        \/ /\ BlobCount < MaxBlobs
           /\ \E l \in Lists(ImageDataInputs, MaxItems), f \in SaveFolderInputs,
                 a \in BOOLEAN, k \in BOOLEAN :
                  SaveStart(p, l, f, a, k)
        \/ SaveValidate(p)
        \/ SavePrepare(p)
        \/ SaveName(p)
        \/ SaveUpload(p)
        \/ SaveIndex(p)
        \/ /\ BlobCount < MaxBlobs
           /\ \E l \in GenerationInputs, f \in VideoFolderInputs,
                 a \in BOOLEAN, k \in BOOLEAN :
                  VideoStart(p, l, f, a, k)
        \/ VideoCreateJob(p)
        \/ VideoPoll(p)
        \/ VideoBegin(p)
        \/ VideoAnalyze(p)
        \/ VideoUpload(p)
        \/ VideoIndex(p)
        \/ Return(p)

\* Image saves and video uploads, one request at a time
SpecCreate == CreateInit /\ [][CreateNext]_vars

----------------------------------------------------------------------------
(* Properties of the creates *)

IsCreate(p) == proc[p].op \in {"save", "video"}

\* The index was unavailable to the save: no service was obtained, or a
\* create call of the request was refused
IndexDown(p) ==
    \/ ~proc[p].cosmos
    \/ proc[p].stage = "index_failed"
    \/ \E j \in 1..Len(proc[p].saved) : proc[p].saved[j].stage = "index_failed"

\* Every entry of the saved list has its bytes in the store, at its blob
\* name, as get_asset_content gives them
SavedAreStored(p) ==
    \A j \in 1..Len(proc[p].saved) :
        get_asset_content(proc[p].saved[j].container,
                          proc[p].saved[j].blob_name).content
            = proc[p].saved[j].content

\* C4: when the index is unavailable (not configured, not constructed, or
\* its create call raises) a save that met no error of the store or of its
\* input answers success, every asset it uploaded is in the saved list, and
\* the store holds the bytes of every saved entry at the returned blob name.
SaveSurvivesIndexOutage ==
    \A p \in Procs :
        proc[p].op = "save" =>
            /\ SavedAreStored(p)
            /\ (proc[p].pc = "done" /\ IndexDown(p) /\ proc[p].ret = "none") =>
                   /\ proc[p].resp.status = 200 /\ proc[p].resp.success
                   /\ proc[p].resp.results = proc[p].saved
                   /\ {proc[p].saved[j].blob_name : j \in 1..Len(proc[p].saved)}
                          = proc[p].present

\* C4, witness: a save whose index create was refused has answered success
\* and the bytes of that asset are in the store.
SaveDegradedSeen ==
    \E p \in Procs :
        /\ proc[p].op = "save" /\ proc[p].pc = "done"
        /\ proc[p].resp.status = 200 /\ proc[p].resp.success
        /\ \E j \in 1..Len(proc[p].saved) :
              /\ proc[p].saved[j].stage = "index_failed"
              /\ Holds(IMAGES, proc[p].saved[j].blob_name, proc[p].saved[j].content)

\* PENDING -> STORE_WRITTEN -> INDEXED | INDEX_FAILED, PENDING -> STORE_FAILED
StageEdges ==
    {<<"none", "pending">>, <<"pending", "store_written">>,
     <<"pending", "store_failed">>, <<"store_written", "indexed">>,
     <<"store_written", "index_failed">>}

\* The blob of the asset in hand is in the store once its stage says so
StoreWrittenHolds ==
    \A p \in Procs :
        (IsCreate(p) /\ proc[p].stage \in {"store_written", "indexed", "index_failed"})
            => Holds(proc[p].container, proc[p].blob_name, proc[p].content)

\* A step of a create moves the asset along the edges only (or on to the
\* next asset), and a step that writes the index is taken for an asset whose
\* blob is already written, and adds the record of that asset only.
CreateStepOrdered ==
    \A p \in Procs :
        /\ (IsCreate(p) /\ proc[p].stage' # proc[p].stage) =>
               \/ <<proc[p].stage, proc[p].stage'>> \in StageEdges
               \/ proc[p].stage' = "none"
        /\ index' # index =>
               /\ IsCreate(p)
               /\ proc[p].stage = "store_written"
               /\ Holds(proc[p].container, proc[p].blob_name, proc[p].content)
               /\ store' = store
               /\ DOMAIN index'.items
                      = (DOMAIN index.items)
                            \cup {RecordKey(proc[p].blob_name, proc[p].container)}
               /\ index'.items[RecordKey(proc[p].blob_name, proc[p].container)].blob_name
                      = proc[p].blob_name

\* C5: in the image save and in the video upload the store's write of an
\* asset strictly precedes its index write: PENDING -> STORE_WRITTEN ->
\* INDEXED or INDEX_FAILED, or PENDING -> STORE_FAILED, and no index record
\* is written by a create for an asset whose blob has not been written.
CreateStoreFirst == [](StoreWrittenHolds) /\ [][CreateStepOrdered]_vars

\* C5, witness: a create has written the blob of an asset and then its
\* index record.
CreateIndexedSeen ==
    \E p \in Procs :
        /\ IsCreate(p) /\ proc[p].stage = "indexed"
        /\ HasRecord(proc[p].blob_name, proc[p].container)
        /\ Holds(proc[p].container, proc[p].blob_name, proc[p].content)

\* C6: whenever the store's put fails during a create (image save, or the
\* upload of a generated video), the caller gets a hard error and not a
\* success.
CreateStoreFailureIsError ==
    \A p \in Procs :
        (IsCreate(p) /\ proc[p].pc = "done" /\ proc[p].errors # {}) =>
            /\ proc[p].resp.status >= 400
            /\ ~proc[p].resp.success

----------------------------------------------------------------------------
(* Batches around the thresholds *)

\* Sizes of the batches: a single name, the threshold, and one more
BatchSizes(threshold) == {1, threshold, threshold + 1}

ThresholdLists(threshold) ==
    {<<>>} \cup {Padded(<<n>>, k) : n \in {CatPng, Pets \o DogPng},
                                    k \in BatchSizes(threshold)}

BatchNext ==
    \E p \in Procs :
        \/ \E l \in ThresholdLists(BatchDeleteThreshold), c \in MoveContainerInputs :
               BatchDeleteStart(p, l, c[1], c[2])
        \/ BatchDeleteValidate(p)
        \/ BatchDeleteResolve(p)
        \/ BatchDeleteDispatch(p)
        \/ BatchDeleteItem(p)
        \/ \E l \in ThresholdLists(BatchMoveThreshold), c \in MoveContainerInputs,
              t \in TargetInputs :
               BatchMoveStart(p, l, c[1], c[2], t)
        \/ BatchMoveValidate(p)
        \/ BatchMoveEnsureFolder(p)
        \/ BatchMoveDispatch(p)
        \/ ItemSteps(p)
        \/ Return(p)

\* Batch deletes and batch moves of sizes around their thresholds
SpecBatch == DeleteInit /\ [][BatchNext]_vars

IsBatch(p) == proc[p].op \in {"batch_delete", "batch_move"}

ThresholdOf(p) ==
    IF proc[p].op = "batch_delete" THEN BatchDeleteThreshold ELSE BatchMoveThreshold

\* The batch has been dispatched: it is in its loop or has left it
Dispatched(p) ==
    /\ IsBatch(p) /\ proc[p].i >= 1
    /\ proc[p].pc \in {"bd_item", "it_read", "it_meta", "it_upload", "it_delete", "done"}

NameSet(names) == {names[j] : j \in 1..Len(names)}

\* What a dispatched batch answers, for the sizes sent to the background
BatchAnswers(p, inBackground) ==
    /\ proc[p].bg = inBackground
    /\ proc[p].bg =>
           /\ proc[p].resp.status = 200 /\ proc[p].resp.background_task
           /\ proc[p].resp.results = <<>>
           /\ proc[p].resp.total = Len(proc[p].names)
    /\ (~proc[p].bg /\ proc[p].pc = "done" /\ proc[p].errors = {}) =>
           /\ proc[p].resp.status = 200 /\ ~proc[p].resp.background_task
           /\ DOMAIN proc[p].resp.results = NameSet(proc[p].names)
           /\ proc[p].resp.results # <<>>
           /\ proc[p].resp.total = Len(proc[p].names)

----------------------------------------------------------------------------
(* normalize_folder_path on its own: the folder of a request is normalized, *)
(* and the result is normalized once more, as when a normalized folder_path *)
(* that was stored or returned comes back in a later request                *)

\* Longest folder string, in tokens
MaxPathLen == 4

PathTokens == {SLASH, SPACE, "a", "b"}

FolderStrings == UNION {[1..n -> PathTokens] : n \in 0..MaxPathLen}

NormalizeInit ==
    /\ store = [c \in Containers |-> <<>>]
    /\ index = NoIndex
    /\ \E s \in FolderStrings :
          proc = [p \in Procs |->
                    [IdleProc EXCEPT !.op = "normalize", !.pc = "n_first",
                                     !.target = s]]

\* normalized_folder = normalize_folder_path(folder_path)
NormalizeFirst(p) ==
    /\ proc[p].op = "normalize" /\ proc[p].pc = "n_first"
    /\ proc' = [proc EXCEPT ![p].folder = normalize_folder_path(proc[p].target),
                             ![p].pc = "n_second"]
    /\ UNCHANGED <<store, index>>

\* The normalized folder is passed through normalize_folder_path again;
\* blob_name holds the second result
NormalizeSecond(p) ==
    /\ proc[p].op = "normalize" /\ proc[p].pc = "n_second"
    /\ proc' = [proc EXCEPT ![p].blob_name = normalize_folder_path(proc[p].folder),
                             ![p].pc = "n_done"]
    /\ UNCHANGED <<store, index>>

NormalizeNext ==
    \E p \in Procs :
        \/ NormalizeFirst(p)
        \/ NormalizeSecond(p)

SpecNormalize == NormalizeInit /\ [][NormalizeNext]_vars

\* C12: normalize_folder_path is idempotent for every string, also one with
\* several leading separators or with whitespace after a leading separator:
\* normalizing the normalized folder gives the normalized folder.
NormalizeIdempotent ==
    \A p \in Procs :
        (proc[p].op = "normalize" /\ proc[p].pc = "n_done")
            => proc[p].blob_name = proc[p].folder

\* C13: for every input the result of normalize_folder_path is the empty
\* string, or ends in exactly one '/' and does not start with '/'.
NormalizedShape ==
    \A p \in Procs :
        (proc[p].op = "normalize" /\ proc[p].pc \in {"n_second", "n_done"}) =>
            \/ proc[p].folder = EmptyStr
            \/ /\ EndsWith(proc[p].folder, <<SLASH>>)
               /\ ~EndsWith(proc[p].folder, <<SLASH, SLASH>>)
               /\ ~StartsWith(proc[p].folder, <<SLASH>>)

----------------------------------------------------------------------------
(* Properties of the single-asset move: missing source, same folder *)

\* The request is at its source check, with a name and a container, and the
\* source key is not in the store
AtMissingSource(p) ==
    /\ proc[p].op = "move" /\ proc[p].pc = "m_source"
    /\ CurName(p) # <<>>
    /\ ResolveContainer(proc[p].container, proc[p].media_type) # ""
    /\ CurName(p) \notin
           DOMAIN store[ResolveContainer(proc[p].container, proc[p].media_type)]

\* C14: a move whose source key is not in the store is answered with the
\* 404 of NotFound, and leaves the store as it is (no marker, no write at
\* the destination, no delete).
MoveMissingSourceIs404 ==
    [][\A p \in Procs :
          (AtMissingSource(p) /\ proc[p]' # proc[p]) =>
              /\ proc[p].pc' = "done"
              /\ proc[p].resp'.status = 404
              /\ store' = store]_vars

\* A single-asset move that passed its source check and whose normalized
\* target folder is the folder of its source key
SameFolderMove(p) ==
    /\ proc[p].op = "move" /\ proc[p].orig # NoContent
    /\ SameFolder(CurName(p), proc[p].folder)

SameFolderAnswer ==
    \A p \in Procs :
        SameFolderMove(p) =>
            /\ proc[p].pc \in {"m_folder", "m_target", "done"}
            /\ proc[p].ret = "none"
            /\ (proc[p].pc = "done" /\ proc[p].resp.status = 200)
                   => proc[p].resp = MoveSuccessResp(FALSE, FALSE)
            /\ (proc[p].pc = "done" /\ proc[p].folder \in proc[p].folders)
                   => proc[p].resp = MoveSuccessResp(FALSE, FALSE)

\* The only write of a same-folder move is the marker of the target folder,
\* and it is made only when the folder listing did not name the folder
SameFolderWritesOnlyMarker ==
    \A p \in Procs :
        (SameFolderMove(p) /\ store' # store) =>
            /\ proc[p].pc = "m_folder"
            /\ proc[p].folder \notin proc[p].folders'
            /\ store' = UploadBlob(store, proc[p].container,
                                   FolderMarkerName(proc[p].folder),
                                   MarkerBlob(proc[p].folder))

----------------------------------------------------------------------------
(* cosmos_client.py: query_assets, as used by POST /metadata/search *)

\* limit: int = 50
DefaultLimit == 50

\* A document with the fields the query reads
TaggedRecord(blob_name, container, folder, tags, created_at) ==
    [id |-> AssetId(blob_name), media_type |-> MediaTypeOf(container),
     blob_name |-> blob_name, container |-> container, folder_path |-> folder,
     tags |-> tags, created_at |-> created_at]

\* ARRAY_CONTAINS(c.tags, tag): false for a document without a tags array
ArrayContains(rec, tag) ==
    /\ "tags" \in DOMAIN rec
    /\ \E i \in 1..Len(rec.tags) : rec.tags[i] = tag

\* A filter that asks for every requested tag
TagConditionAll(rec, tags) ==
    \A i \in 1..Len(tags) : ArrayContains(rec, tags[i])

\* "(" + " OR ".join(tag_conditions) + ")"
TagCondition(rec, tags) ==
    \E i \in 1..Len(tags) : ArrayContains(rec, tags[i])

\* where_clause: the filters that were given, joined by AND; None and the
\* empty value of a filter leave it out
WhereClause(rec, media_type, folder_path, tags) ==
    /\ (media_type # "none") => rec.media_type = media_type
    /\ (folder_path # EmptyStr) => rec.folder_path = folder_path
    /\ (tags # <<>>) => TagCondition(rec, tags)

\* ORDER BY c.created_at DESC / ASC
RECURSIVE OrderBy(_, _)
OrderBy(recs, order_desc) ==
    IF recs = {} THEN <<>>
    ELSE LET first == CHOOSE r \in recs :
                          \A o \in recs :
                              IF order_desc THEN o.created_at <= r.created_at
                                            ELSE o.created_at >= r.created_at
         IN  <<first>> \o OrderBy(recs \ {first}, order_desc)

\* OFFSET {offset} LIMIT {limit}
OffsetLimit(seq, offset, limit) ==
    SubSeq(seq, offset + 1,
           IF offset + limit < Len(seq) THEN offset + limit ELSE Len(seq))

query_assets(items, media_type, folder_path, tags, limit, offset, order_desc) ==
    LET matching == {items[k] : k \in {x \in DOMAIN items :
                         WhereClause(items[x], media_type, folder_path, tags)}}
        page == OffsetLimit(OrderBy(matching, order_desc), offset, limit)
        total_count == Cardinality(matching)
    IN  [items |-> page, total |-> total_count, limit |-> limit,
         offset |-> offset, has_more |-> (offset + Len(page)) < total_count]

QueryStart(p, media_type, folder_path, tags, limit, offset, order_desc) ==
    /\ Free(p)
    /\ proc' = [proc EXCEPT ![p] =
          [IdleProc EXCEPT !.op = "query", !.pc = "q_run",
                           !.media_type = media_type, !.target = folder_path,
                           !.tags = tags, !.limit = limit, !.offset = offset,
                           !.order_desc = order_desc]]
    /\ UNCHANGED <<store, index>>

\* search_asset_metadata without a search term: the filters go to
\* query_assets as they are; an error of the index leaves as a 500
QueryRun(p) ==
    /\ proc[p].op = "query" /\ proc[p].pc = "q_run"
    /\ LET q == proc[p]
       IN  \/ Respond(p, ErrorResp(500))                       \* index error
           \/ LET result == query_assets(index.items, q.media_type, q.target,
                                         q.tags, q.limit, q.offset, q.order_desc)
              IN  proc' = [proc EXCEPT ![p].pc = "done",
                              ![p].result = result,
                              ![p].resp = [NoResp EXCEPT !.status = 200,
                                                         !.success = TRUE,
                                                         !.total = result.total]]
    /\ UNCHANGED <<store, index>>

----------------------------------------------------------------------------
(* The world of the queries *)

BirdPng == <<"bird", DOT, "png">>

\* Three image records tagged {a}, {b} and {a, b}, a video record with
\* another tag and an image record without a tags array
QueryInitIndex ==
    [available |-> TRUE,
     items |-> (RecordKey(CatPng, IMAGES)
                   :> TaggedRecord(CatPng, IMAGES, EmptyStr, <<"a">>, 1))
            @@ (RecordKey(Pets \o DogPng, IMAGES)
                   :> TaggedRecord(Pets \o DogPng, IMAGES, Pets, <<"b">>, 2))
            @@ (RecordKey(Pets \o BirdPng, IMAGES)
                   :> TaggedRecord(Pets \o BirdPng, IMAGES, Pets, <<"a", "b">>, 3))
            @@ (RecordKey(ClipMp4, VIDEOS)
                   :> TaggedRecord(ClipMp4, VIDEOS, EmptyStr, <<"c">>, 4))
            @@ (RecordKey(GhostPng, IMAGES)
                   :> [id |-> AssetId(GhostPng), media_type |-> "image",
                       blob_name |-> GhostPng, container |-> IMAGES,
                       folder_path |-> EmptyStr, created_at |-> 5])]

QueryInit ==
    /\ store = [c \in Containers |-> <<>>]
    /\ index = QueryInitIndex
    /\ proc = [p \in Procs |-> IdleProc]

TagInputs == {<<>>, <<"a">>, <<"b">>, <<"a", "b">>, <<"b", "a">>, <<"c">>, <<"d">>}

LimitInputs == {1, 2, DefaultLimit}

OffsetInputs == {0, 1}

QueryNext ==
    \E p \in Procs :
        \/ \E media_type \in {"none", "image"}, folder_path \in {EmptyStr, Pets},
              tags \in TagInputs, limit \in LimitInputs, offset \in OffsetInputs,
              order_desc \in BOOLEAN :
               QueryStart(p, media_type, folder_path, tags, limit, offset, order_desc)
        \/ QueryRun(p)
        \/ Return(p)

SpecQuery == QueryInit /\ [][QueryNext]_vars

----------------------------------------------------------------------------
(* Properties of the tags filter *)

Range(seq) == {seq[i] : i \in 1..Len(seq)}

\* The records of the index that carry at least one of the tags and pass
\* the other filters of the request
AnyTagRecords(p) ==
    {index.items[k] : k \in {x \in DOMAIN index.items :
        LET r == index.items[x]
        IN  /\ "tags" \in DOMAIN r /\ Range(r.tags) \cap Range(proc[p].tags) # {}
            /\ proc[p].media_type # "none" => r.media_type = proc[p].media_type
            /\ proc[p].target # EmptyStr => r.folder_path = proc[p].target}}

TagQueryDone(p) ==
    /\ proc[p].op = "query" /\ proc[p].pc = "done" /\ proc[p].resp.status = 200
    /\ proc[p].tags # <<>>

Unfiltered(p) ==
    /\ proc[p].media_type = "none" /\ proc[p].target = EmptyStr
    /\ proc[p].offset = 0 /\ proc[p].limit = DefaultLimit

\* C16: the tags filter has OR semantics: the records a query with tags
\* counts and returns are those with at least one requested tag in their
\* tag set; over records tagged {a}, {b}, {a, b}, tags=[a] gives the first
\* and the third and tags=[a, b] gives all three.
TagsFilterIsAnyMatch ==
    \A p \in Procs :
        TagQueryDone(p) =>
            /\ Range(proc[p].result.items) \subseteq AnyTagRecords(p)
            /\ proc[p].result.total = Cardinality(AnyTagRecords(p))
            /\ (proc[p].offset = 0 /\ proc[p].limit = DefaultLimit)
                  => Range(proc[p].result.items) = AnyTagRecords(p)
            /\ (Unfiltered(p) /\ proc[p].tags = <<"a">>)
                  => {r.blob_name : r \in Range(proc[p].result.items)}
                        = {CatPng, Pets \o BirdPng}
            /\ (Unfiltered(p) /\ proc[p].tags = <<"a", "b">>)
                  => {r.blob_name : r \in Range(proc[p].result.items)}
                        = {CatPng, Pets \o DogPng, Pets \o BirdPng}

\* C16, witness: a query for [a, b] has returned the three tagged records,
\* the ones with a single tag included.
AnyTagQuerySeen ==
    \E p \in Procs :
        /\ TagQueryDone(p) /\ Unfiltered(p) /\ proc[p].tags = <<"a", "b">>
        /\ Len(proc[p].result.items) = 3
        /\ \E r \in Range(proc[p].result.items) : r.tags = <<"a">>

----------------------------------------------------------------------------
(* gallery.py: POST /upload, with AzureBlobStorageService.upload_asset *)

\* any(filename.endswith(ext) for ext in valid_types), for the extensions
\* of the model; the file names of the model are in lower case
ValidType(filename, media_type) ==
    IF media_type = "image" THEN EndsWith(filename, <<DOT, "png">>)
    ELSE EndsWith(filename, <<DOT, "mp4">>)

UploadSuccessResp == [NoResp EXCEPT !.status = 200, !.success = TRUE]

\* present is the history of the upload: the keys that were under its
\* folder, in either container, when it began
UploadStart(p, filename, media_type, folder_path, content) ==
    /\ Free(p)
    /\ proc' = [proc EXCEPT ![p] =
          [IdleProc EXCEPT !.op = "upload", !.pc = "u_validate",
                           !.filename = filename, !.media_type = media_type,
                           !.target = folder_path, !.content = content,
                           !.present =
                               {k \in UNION {DOMAIN store[c] : c \in Containers} :
                                   StartsWith(k, normalize_folder_path(folder_path))}]]
    /\ UNCHANGED <<store, index>>

\* The handler's validation, then the first lines of upload_asset: the
\* container of the asset type, the content type, the normalized folder.
\* The HTTPException(400) of an invalid type is raised inside the try and
\* leaves as a 500.
UploadValidate(p) ==
    /\ proc[p].op = "upload" /\ proc[p].pc = "u_validate"
    /\ LET q == proc[p]
       IN  IF ~ValidType(q.filename, q.media_type)
           THEN Respond(p, ErrorResp(500))
           ELSE proc' = [proc EXCEPT ![p] =
                   [q EXCEPT !.container = IF q.media_type = "image" THEN IMAGES
                                           ELSE VIDEOS,
                             !.ctype = get_content_type(SplitExtExt(q.filename),
                                                        q.media_type),
                             !.folder = normalize_folder_path(q.target),
                             !.pc = "u_name"]]
    /\ UNCHANGED <<store, index>>

\* uuid.uuid4(): a value no key and no request in flight carries yet
UploadUuids == {"u1", "u2"}

FreshUuids(except) ==
    {u \in UploadUuids :
        /\ \A c \in Containers : \A k \in DOMAIN store[c] :
               \A i \in 1..Len(k) : k[i] # u
        /\ \A o \in (DOMAIN proc) \ {except} :
               \A i \in 1..Len(proc[o].blob_name) : proc[o].blob_name[i] # u}

\* The name without the exists() probe
UploadNameNoProbe(p) ==
    /\ proc[p].op = "upload" /\ proc[p].pc = "u_name"
    /\ proc' = [proc EXCEPT ![p].pc = "u_write",
                    ![p].blob_name = PlainBlobName(proc[p].folder, proc[p].filename)]
    /\ UNCHANGED <<store, index>>

\* upload_asset, the name: blob_client.exists() on the folder-prefixed file
\* name, and a uuid suffix when the name is taken
UploadName(p) ==
    /\ proc[p].op = "upload" /\ proc[p].pc = "u_name"
    /\ LET q == proc[p]
           plain == PlainBlobName(q.folder, q.filename)
       IN  \/ Respond(p, ErrorResp(500))                       \* store error
           \/ IF BlobExists(q.container, plain)
              THEN \E u \in FreshUuids(p) :
                      proc' = [proc EXCEPT ![p].pc = "u_write",
                                  ![p].blob_name =
                                      SuffixedBlobName(q.folder, q.filename, u)]
              ELSE proc' = [proc EXCEPT ![p].pc = "u_write",
                                        ![p].blob_name = plain]
    /\ UNCHANGED <<store, index>>

\* upload_asset, blob_client.upload_blob(..., overwrite=True).  The bytes of
\* the model are no decodable image: no width and height are added.
UploadWrite(p) ==
    /\ proc[p].op = "upload" /\ proc[p].pc = "u_write"
    /\ LET q == proc[p]
       IN  \/ /\ Respond(p, ErrorResp(500))                    \* store error
              /\ UNCHANGED store
           \/ /\ store' = UploadBlob(store, q.container, q.blob_name,
                              Blob(q.content, q.ctype, UploadMeta(q.meta, q.folder)))
              /\ Respond(p, UploadSuccessResp)
    /\ UNCHANGED index

----------------------------------------------------------------------------
(* azure_storage.py: list_blobs;  gallery.py: GET / *)

\* The store lists the blobs of a container by name; the tokens of the
\* model's names, in the order of their characters
TokenOrder ==
    <<DOT, SLASH, UNDERSCORE, "bird", "cat", "clip", "dog", FolderToken,
      "ghost", "mp4", "pets", "png", "toys", "u1", "u2">>

TokenRank(t) == CHOOSE i \in 1..Len(TokenOrder) : TokenOrder[i] = t

RECURSIVE NameBefore(_, _)
NameBefore(a, b) ==
    IF b = <<>> THEN FALSE
    ELSE IF a = <<>> THEN TRUE
    ELSE IF Head(a) = Head(b) THEN NameBefore(Tail(a), Tail(b))
    ELSE TokenRank(Head(a)) < TokenRank(Head(b))

RECURSIVE SortNames(_)
SortNames(names) ==
    IF names = {} THEN <<>>
    ELSE LET first == CHOOSE n \in names :
                          \A o \in names \ {n} : NameBefore(n, o)
         IN  <<first>> \o SortNames(names \ {first})

\* continuation_token = None
NoToken == <<>>

\* An entry of the blob list
ListedBlob(st, c, name) ==
    [name |-> name, size |-> st[c][name].content.len,
     content_type |-> st[c][name].ctype, metadata |-> st[c][name].meta,
     folder_path |-> CurrentFolder(name)]

\* list_blobs: the first page, of at most `limit` blobs, of the names that
\* start with the prefix and come after the marker; the token of a page
\* that is not the last is the name the next page resumes after.  The
\* SDK's list_blobs takes no delimiter: the listing is flat, without
\* prefixes.
list_blobs(st, c, prefix, limit, marker) ==
    LET names == {k \in DOMAIN st[c] :
                     /\ StartsWith(k, prefix)
                     /\ marker # NoToken => NameBefore(marker, k)}
        sorted == SortNames(names)
        page == SubSeq(sorted, 1, IF limit < Len(sorted) THEN limit ELSE Len(sorted))
    IN  [blobs |-> [i \in 1..Len(page) |-> ListedBlob(st, c, page[i])],
         continuation_token |-> IF Len(sorted) > limit THEN page[Len(page)]
                                ELSE NoToken,
         container |-> c, prefixes |-> <<>>]

\* folder_path: Optional[str] = Query(None)
None == <<"None">>

\* if folder_path is not None: prefix = normalize_folder_path(folder_path)
GalleryPrefix(prefix, folder_path) ==
    IF folder_path # None THEN normalize_folder_path(folder_path) ELSE prefix

GalleryItem(blob, media_type, container) ==
    [id |-> AssetId(blob.name), name |-> blob.name, media_type |-> media_type,
     container |-> container, size |-> blob.size,
     content_type |-> blob.content_type, metadata |-> blob.metadata,
     folder_path |-> blob.folder_path]

\* "Skip .folder files used as folder markers"
GalleryItemsOf(results, media_type) ==
    SelectSeq([i \in 1..Len(results.blobs) |->
                  GalleryItem(results.blobs[i], media_type, results.container)],
              LAMBDA item : ~EndsWith(item.name, <<DOT, FolderToken>>))

\* gallery_items.sort(key=last_modified, reverse=True): the blobs of the
\* model carry no time stamps, so every order of the items can come out
SortedByLastModified(items) ==
    {s \in [1..Len(items) -> {items[i] : i \in 1..Len(items)}] :
        \A a, b \in 1..Len(items) : a # b => s[a] # s[b]}

\* An upload that was answered with success
Uploaded(q) == q.op = "upload" /\ q.resp.status = 200

\* last, filename and folder are the history of the session: the upload
\* this request follows, if the request before it was an upload that
\* succeeded (its key, bytes, file name and normalized folder), and whether
\* the folder of that upload held no key before it.
GalleryStart(p, limit, offset, continuation_token, prefix, folder_path) ==
    /\ proc[p].pc \in {"idle", "done"}
    /\ proc' = [proc EXCEPT ![p] =
          [IdleProc EXCEPT !.op = "gallery", !.pc = "g_images",
                           !.filename = IF Uploaded(proc[p]) THEN proc[p].filename
                                        ELSE <<>>,
                           !.folder = IF Uploaded(proc[p]) THEN proc[p].folder
                                      ELSE <<>>,
                           !.limit = limit, !.offset = offset,
                           !.marker = continuation_token,
                           !.target = folder_path,
                           !.prefix = GalleryPrefix(prefix, folder_path),
                           !.last =
                               IF Uploaded(proc[p])
                               THEN [name |-> proc[p].blob_name,
                                     orig |-> proc[p].content,
                                     ok |-> proc[p].present = {}]
                               ELSE NoItem]]
    /\ UNCHANGED <<store, index>>

\* "Get images"
GalleryListImages(p) ==
    /\ proc[p].op = "gallery" /\ proc[p].pc = "g_images"
    /\ LET q == proc[p]
       IN  \/ Respond(p, ErrorResp(500))                       \* store error
           \/ proc' = [proc EXCEPT ![p].pc = "g_videos",
                          ![p].listings = q.listings + 1,
                          ![p].image_results =
                              list_blobs(store, IMAGES, q.prefix, q.limit, q.marker)]
    /\ UNCHANGED <<store, index>>

\* "Get videos", and the rest of the handler: the items of both listings
\* without the folder markers, sorted, cut to offset and limit
GalleryListVideos(p) ==
    /\ proc[p].op = "gallery" /\ proc[p].pc = "g_videos"
    /\ LET q == proc[p]
           video_results == list_blobs(store, VIDEOS, q.prefix, q.limit, q.marker)
           gallery_items == GalleryItemsOf(q.image_results, "image")
                               \o GalleryItemsOf(video_results, "video")
       IN  \/ Respond(p, ErrorResp(500))                       \* store error
           \/ \E sorted \in SortedByLastModified(gallery_items) :
                 proc' = [proc EXCEPT ![p].pc = "done",
                    ![p].listings = q.listings + 1,
                    ![p].result =
                        [items |-> OffsetLimit(sorted, q.offset, q.limit),
                         total |-> Len(gallery_items),
                         continuation_token |->
                             IF q.image_results.continuation_token # NoToken
                             THEN q.image_results.continuation_token
                             ELSE video_results.continuation_token],
                    ![p].resp = [NoResp EXCEPT !.status = 200, !.success = TRUE,
                                               !.total = Len(gallery_items)]]
    /\ UNCHANGED <<store, index>>

----------------------------------------------------------------------------
(* The world of uploads and gallery reads *)

\* Most blobs the store of this world holds when an upload begins
MaxStored == 5

\* An asset and a folder marker in toys/ of the images container, a video
\* at the root; nothing under pets/.  The index is configured or not.
GalleryInitStore ==
    [c \in Containers |->
        IF c = IMAGES
        THEN (Toys \o DogPng :> Blob(Bytes(1), "image/png", ("folder_path" :> Toys)))
             @@ (FolderMarkerName(Toys) :> MarkerBlob(Toys))
        ELSE (ClipMp4 :> Blob(Bytes(2), "video/mp4", NoMeta))]

GalleryInit ==
    /\ store = GalleryInitStore
    /\ index \in {NoIndex, [available |-> TRUE, items |-> <<>>]}
    /\ proc = [p \in Procs |-> IdleProc]

UploadFolderInputs == {<<>>, <<"pets">>, <<"toys", SLASH>>}

GalleryFolderInputs == {None, <<"pets">>, <<SLASH, "toys">>}

TokenInputs == {NoToken, Toys \o DogPng}

GalleryNext ==
    \E p \in Procs :
        \/ /\ BlobCount < MaxStored
           /\ \E media_type \in {"image", "video"},
                 folder_path \in UploadFolderInputs :
                  UploadStart(p, CatPng, media_type, folder_path, Bytes(3))
        \/ UploadValidate(p)
        \/ UploadName(p)
        \/ UploadWrite(p)
        \/ \E limit \in {1, DefaultLimit}, offset \in OffsetInputs,
              continuation_token \in TokenInputs,
              folder_path \in GalleryFolderInputs :
               GalleryStart(p, limit, offset, continuation_token, <<>>, folder_path)
        \/ GalleryListImages(p)
        \/ GalleryListVideos(p)
        \/ Return(p)

SpecGallery == GalleryInit /\ [][GalleryNext]_vars

----------------------------------------------------------------------------
(* Properties of the gallery read *)

\* A gallery read that was answered, right after a successful upload into
\* a folder that held no key, asking for the folder of the upload with the
\* other parameters at their defaults
ListAfterUpload(p) ==
    /\ proc[p].op = "gallery" /\ proc[p].pc = "done" /\ proc[p].resp.status = 200
    /\ proc[p].last.name # <<>> /\ proc[p].last.ok
    /\ proc[p].target # None
    /\ proc[p].prefix = proc[p].folder
    /\ proc[p].offset = 0 /\ proc[p].marker = NoToken

\* C17: upload then list: after uploading one image into a folder that held
\* no key, the gallery read of that folder returns exactly one item, with
\* the normalized folder as its folder_path and a key that ends in the file
\* name: cat.png into "pets" gives one item of folder_path "pets/" whose key
\* ends in cat.png.
UploadThenList ==
    \A p \in Procs :
        ListAfterUpload(p) =>
            /\ Len(proc[p].result.items) = 1
            /\ proc[p].result.items[1].name = proc[p].last.name
            /\ proc[p].result.items[1].folder_path = proc[p].folder
            /\ EndsWith(proc[p].result.items[1].name, proc[p].filename)
            /\ (proc[p].target = <<"pets">> /\ proc[p].filename = CatPng)
                  => /\ proc[p].result.items[1].folder_path = Pets
                     /\ EndsWith(proc[p].result.items[1].name, CatPng)
                     /\ Holds(IMAGES, Pets \o CatPng, proc[p].last.orig)

\* C17, witness: cat.png was uploaded into the empty folder "pets" and the
\* read of "pets" was answered with one item.
UploadThenListSeen ==
    \E p \in Procs :
        /\ ListAfterUpload(p) /\ proc[p].target = <<"pets">>
        /\ proc[p].last.name = Pets \o CatPng
        /\ Len(proc[p].result.items) = 1

\* C18: gallery read planning: with a metadata index configured and no
\* continuation token the read is one index query, without any listing of
\* the object store; the store is listed only when no index is configured
\* or a continuation token is given.
GalleryReadPlanned ==
    \A p \in Procs :
        (proc[p].op = "gallery" /\ proc[p].pc = "done" /\ proc[p].resp.status = 200)
            => IF index.available /\ proc[p].marker = NoToken
               THEN proc[p].queries = 1 /\ proc[p].listings = 0
               ELSE proc[p].queries = 0 /\ proc[p].listings > 0

----------------------------------------------------------------------------
(* Concurrent uploads *)

\* The requests that are served at the same time
Clients == {1, 2}

UploadRaceInit ==
    /\ store = GalleryInitStore
    /\ index = NoIndex
    /\ proc = [p \in Clients |-> IdleProc]

\* Each client uploads cat.png with bytes of its own
UploadRaceNext ==
    \E p \in Clients :
        \/ /\ BlobCount < MaxStored
           /\ \E folder_path \in {<<>>, <<"pets">>} :
                  UploadStart(p, CatPng, "image", folder_path, Bytes(p))
        \/ UploadValidate(p)
        \/ UploadName(p)
        \/ UploadWrite(p)
        \/ Return(p)

SpecUploadRace == UploadRaceInit /\ [][UploadRaceNext]_vars

\* No step changes a blob that exists
ExistingBlobsKept ==
    \A c \in Containers : \A k \in DOMAIN store[c] :
        k \in DOMAIN store'[c] /\ store'[c][k] = store[c][k]

\* Two answered uploads of the same file name into the same folder are at
\* two keys, each with the bytes of its upload
UploadsAtDistinctKeys ==
    \A p, q \in Clients :
        (/\ p # q /\ Uploaded(proc[p]) /\ Uploaded(proc[q])
         /\ proc[p].filename = proc[q].filename /\ proc[p].folder = proc[q].folder)
            => /\ proc[p].blob_name # proc[q].blob_name
               /\ Holds(proc[p].container, proc[p].blob_name, proc[p].content)
               /\ Holds(proc[q].container, proc[q].blob_name, proc[q].content)

\* C19: collision-safe naming under concurrency: an upload never overwrites
\* the content of a blob that exists, and two concurrent uploads of the same
\* file name into the same folder end at two distinct keys, each holding its
\* own content.
UploadNeverOverwrites == [][ExistingBlobsKept]_vars /\ [](UploadsAtDistinctKeys)

----------------------------------------------------------------------------
(* Concurrent moves *)

\* Two assets of the same file name, at the root and in toys/; nothing
\* under pets/
MoveRaceInitStore ==
    [c \in Containers |->
        IF c = IMAGES
        THEN (CatPng :> Blob(Bytes(1), "image/png", ("prompt" :> "one")))
             @@ (Toys \o CatPng :> Blob(Bytes(2), "image/png",
                                        ("prompt" :> "two") @@ ("folder_path" :> Toys)))
        ELSE <<>>]

MoveRaceInit ==
    /\ store = MoveRaceInitStore
    /\ index = NoIndex
    /\ proc = [p \in Clients |-> IdleProc]

\* Each client moves one of the two assets into pets/
MoveRaceNext ==
    \E p \in Clients :
        \/ \E n \in {CatPng, Toys \o CatPng} : MoveStart(p, n, IMAGES, "none", <<"pets">>)
        \/ MoveCheckSource(p)
        \/ MoveEnsureFolder(p)
        \/ MoveCheckTarget(p)
        \/ MoveReadSize(p)
        \/ ItemSteps(p)
        \/ Return(p)

SpecMoveRace == MoveRaceInit /\ [][MoveRaceNext]_vars

\* The destination check lets the move go on, or ends it as the no-op of a
\* same-folder move: it never answers an error
TargetCheckGoesOn ==
    \A p \in Clients :
        (proc[p].op = "move" /\ proc[p].pc = "m_target" /\ proc[p]' # proc[p])
            => \/ proc[p].pc' = "m_size"
               \/ proc[p].pc' = "done" /\ proc[p].resp' = MoveSuccessResp(FALSE, FALSE)

\* Two answered moves of different source keys to one destination key, each
\* of which found the destination free and copied and deleted
RacedMoves(p, q) ==
    /\ p # q
    /\ proc[p].op = "move" /\ proc[p].pc = "done" /\ proc[p].ret = "true"
    /\ proc[q].op = "move" /\ proc[q].pc = "done" /\ proc[q].ret = "true"
    /\ proc[p].orig # NoContent /\ proc[q].orig # NoContent
    /\ CurName(p) # CurName(q) /\ CurDest(p) = CurDest(q)
    /\ proc[p].present = {} /\ proc[q].present = {}

\* After such a pair the destination holds the bytes of one of the two
\* sources and both source keys are gone
RaceOutcome ==
    \A p, q \in Clients :
        RacedMoves(p, q) =>
            /\ DestHolds(p) \/ DestHolds(q)
            /\ ~BlobExists(IMAGES, CurName(p)) /\ ~BlobExists(IMAGES, CurName(q))

----------------------------------------------------------------------------
(* Properties of the video poll loop *)

\* max_wait_time / poll_interval
MaxPolls == MaxWaitTime \div PollInterval

Polling(p) == proc[p].op = "video" /\ proc[p].pc \in {"v_poll", "v_begin"}

\* The loop counts: one status call per interval waited, never more than
\* the ceiling allows, and the job is never cancelled or deleted
PollsBounded ==
    \A p \in Procs :
        proc[p].op = "video" =>
            /\ proc[p].polls <= MaxPolls
            /\ proc[p].pc = "v_poll"
                  => proc[p].polls * PollInterval = proc[p].elapsed_time
            /\ proc[p].job \notin {"cancelled", "deleted"}

\* How the loop ends: on "succeeded" the handler goes on, on "failed" it
\* answers the failure, at the ceiling it answers the timeout and the job
\* is left running
PollStep ==
    \A p \in Procs :
        (proc[p].op = "video" /\ proc[p].pc = "v_poll" /\ proc[p]' # proc[p]) =>
            /\ proc[p].job' = "succeeded" <=> proc[p].pc' = "v_begin"
            /\ proc[p].job' = "failed"
                  => /\ proc[p].pc' = "done" /\ proc[p].resp'.status = 500
                     /\ proc[p].resp'.detail = "failed"
            /\ proc[p].polls = MaxPolls
                  => /\ proc[p].polls' = MaxPolls
                     /\ proc[p].pc' = "done"
                     /\ proc[p].resp'.status >= 400
                     /\ proc[p].resp'.detail = "timed_out"
                     /\ proc[p].job' = "running"
            /\ proc[p].resp'.detail = "timed_out" => proc[p].polls = MaxPolls

\* C21: the poll loop of the video generation is bounded: it makes at most
\* max_wait_time / poll_interval = 60 status calls and stops; it ends early
\* with success on "succeeded" and with a failure on "failed"; past the
\* ceiling the caller is told of the timeout, and the external job is
\* never cancelled or deleted.
PollLoopBounded == [](PollsBounded) /\ [][PollStep]_vars

\* C21, witness: after 60 status calls the handler has answered the timeout
\* and the job is still running.
PollTimeoutSeen ==
    \E p \in Procs :
        /\ proc[p].op = "video" /\ proc[p].pc = "done"
        /\ proc[p].polls = 60 /\ proc[p].resp.detail = "timed_out"
        /\ proc[p].job = "running"

----------------------------------------------------------------------------
(* metadata_router.py: POST /sync and _sync_metadata_background *)

\* batch_size: int = Field(100, ...)
DefaultBatchSize == 100

\* "Determine containers to sync": one container for "image" or "video",
\* both for no media_type, none for any other value
SyncContainersOf(media_type) ==
    IF media_type = "none" THEN <<IMAGES, VIDEOS>>
    ELSE IF media_type = "image" THEN <<IMAGES>>
    ELSE IF media_type = "video" THEN <<VIDEOS>>
    ELSE <<>>

\* metadata_dict: the fields of the document that tie it to its blob
SyncRecord(blob, container) == AssetRecord(blob.name, container, blob.folder_path)

\* CosmosDBService.update_asset_metadata: existing_item.update(updates) and
\* replace_item
update_asset_metadata(items, key, updates) ==
    [items EXCEPT ![key] =
        [f \in (DOMAIN items[key]) \cup (DOMAIN updates) |->
            IF f \in DOMAIN updates THEN updates[f] ELSE items[key][f]]]

\* A sweep that never rewrites a record that exists
SkipExistingAlways(existing, force_update) == existing

\* `if existing_metadata and not sync_request.force_update: continue`
SkipExisting(existing, force_update) == existing /\ ~force_update

\* The handler hands the sweep to the background tasks and answers; the
\* sweep then runs in this slot.  Without a reachable index the dependency
\* answers 503.
SyncStart(p, media_type, force_update, batch_size) ==
    /\ Free(p)
    /\ proc' = [proc EXCEPT ![p] =
          IF index.available
          THEN [IdleProc EXCEPT !.op = "sync", !.pc = "y_containers",
                                !.media_type = media_type,
                                !.force_update = force_update,
                                !.limit = batch_size, !.bg = TRUE,
                                !.resp = [NoResp EXCEPT !.status = 200,
                                                        !.success = TRUE,
                                                        !.background_task = TRUE]]
          ELSE [IdleProc EXCEPT !.op = "sync", !.pc = "done",
                                !.resp = ErrorResp(503)]]
    /\ UNCHANGED <<store, index>>

\* The sweep moves to container i, or ends after the last one
SyncEnter(q, i) ==
    IF i <= Len(q.containers)
    THEN [q EXCEPT !.i = i, !.marker = NoToken, !.page = <<>>, !.j = 0,
                   !.pc = "y_list"]
    ELSE [q EXCEPT !.pc = "done"]

SyncContainers(p) ==
    /\ proc[p].op = "sync" /\ proc[p].pc = "y_containers"
    /\ proc' = [proc EXCEPT ![p] =
          SyncEnter([proc[p] EXCEPT !.containers =
                                       SyncContainersOf(proc[p].media_type)], 1)]
    /\ UNCHANGED <<store, index>>

\* The token the next page is asked with
SweepMarkerFirstPage(blob_results) == NoToken

\* continuation_token = blob_results.get("continuation_token")
SweepMarker(blob_results) == blob_results.continuation_token

\* One turn of `while True`: list_blobs of the container from the token; no
\* blobs ends the container; an exception of the listing ends the sweep
\* ("Sync failed with error").  prefix holds the token of the page in hand.
SyncList(p) ==
    /\ proc[p].op = "sync" /\ proc[p].pc = "y_list"
    /\ LET q == proc[p]
           blob_results == list_blobs(store, q.containers[q.i], <<>>, q.limit,
                                      q.marker)
       IN  \/ proc' = [proc EXCEPT ![p] =                       \* store error
                  [q EXCEPT !.pc = "done", !.stage = "failed"]]
           \/ proc' = [proc EXCEPT ![p] =
                  IF blob_results.blobs = <<>>
                  THEN SyncEnter(q, q.i + 1)
                  ELSE [q EXCEPT !.page = blob_results.blobs, !.j = 1,
                                 !.prefix = SweepMarker(blob_results),
                                 !.pc = "y_blob"]]
    /\ UNCHANGED <<store, index>>

\* After blob j of the page: the next blob, the next page when the listing
\* gave a token, else the next container
SyncAdvance(q) ==
    IF q.j < Len(q.page) THEN [q EXCEPT !.j = q.j + 1]
    ELSE IF q.prefix # NoToken
         THEN [q EXCEPT !.marker = q.prefix, !.pc = "y_list"]
         ELSE SyncEnter(q, q.i + 1)

Count1(q, field) ==
    [q EXCEPT !.tally = [q.tally EXCEPT ![field] = q.tally[field] + 1]]

\* The body of `for blob in blobs`: the marker is skipped; the record is
\* looked up, then left, updated or created; an exception of the index is
\* counted and the loop goes on.  seen is the history of the blobs visited.
SyncBlob(p) ==
    /\ proc[p].op = "sync" /\ proc[p].pc = "y_blob"
    /\ LET blob == proc[p].page[proc[p].j]
           container == proc[p].containers[proc[p].i]
           q == [Count1(proc[p], "processed") EXCEPT
                    !.seen = Append(proc[p].seen, <<container, blob.name>>)]
           key == RecordKey(blob.name, container)
           existing == key \in DOMAIN index.items
       IN  IF EndsWith(blob.name, <<DOT, FolderToken>>)
           THEN /\ proc' = [proc EXCEPT ![p] = SyncAdvance(q)]
                /\ UNCHANGED index
           ELSE \/ /\ proc' = [proc EXCEPT ![p] =              \* index error
                         SyncAdvance(Count1(q, "errors"))]
                   /\ UNCHANGED index
                \/ IF SkipExisting(existing, proc[p].force_update)
                   THEN /\ proc' = [proc EXCEPT ![p] = SyncAdvance(q)]
                        /\ UNCHANGED index
                   ELSE IF existing
                   THEN /\ index' = [index EXCEPT !.items =
                               update_asset_metadata(index.items, key,
                                                     SyncRecord(blob, container))]
                        /\ proc' = [proc EXCEPT ![p] =
                               SyncAdvance(Count1(q, "updated"))]
                   ELSE /\ index' = [index EXCEPT !.items =
                               create_asset_metadata(index.items,
                                   SyncRecord(blob, container), FALSE)]
                        /\ proc' = [proc EXCEPT ![p] =
                               SyncAdvance(Count1(q, "created"))]
    /\ UNCHANGED store

----------------------------------------------------------------------------
(* The world of the sweep *)

\* Largest batch_size below the default
MaxBatchSize == 2

\* Two images of the same file name, at the root and in pets/, with the
\* marker of pets/; a video that was moved from toys/ to the root
SweepInitStore ==
    [c \in Containers |->
        IF c = IMAGES
        THEN (CatPng :> Blob(Bytes(1), "image/png", ("prompt" :> "one")))
             @@ (Pets \o CatPng :> Blob(Bytes(2), "image/png", ("folder_path" :> Pets)))
             @@ (FolderMarkerName(Pets) :> MarkerBlob(Pets))
        ELSE (ClipMp4 :> Blob(Bytes(3), "video/mp4", NoMeta))]

\* The index is empty, or still holds the record the video got in toys/;
\* or no index is configured
SweepInit ==
    /\ store = SweepInitStore
    /\ index \in {NoIndex,
                  [available |-> TRUE, items |-> <<>>],
                  [available |-> TRUE,
                   items |-> (RecordKey(ClipMp4, VIDEOS)
                                 :> AssetRecord(Toys \o ClipMp4, VIDEOS, Toys))]}
    /\ proc = [p \in Procs |-> IdleProc]

SweepNext ==
    \E p \in Procs :
        \/ \E media_type \in {"none", "image", "video", "audio"},
              force_update \in BOOLEAN,
              batch_size \in (1..MaxBatchSize) \cup {DefaultBatchSize} :
               SyncStart(p, media_type, force_update, batch_size)
        \/ SyncContainers(p)
        \/ SyncList(p)
        \/ SyncBlob(p)
        \/ Return(p)

SpecSweep == SweepInit /\ [][SweepNext]_vars

----------------------------------------------------------------------------
(* Properties of the sweep *)

IsMarkerName(name) == EndsWith(name, <<DOT, FolderToken>>)

\* The blob the sweep of p is about to process, and the key of its record
SweepBlob(p) == proc[p].page[proc[p].j]

SweepKey(p) == IndexKey(MediaTypeOf(proc[p].containers[proc[p].i]),
                        AssetId(SweepBlob(p).name))

Counted(p, field) == proc[p].tally'[field] = proc[p].tally[field] + 1

\* The step of one blob: what it does to the index and to the tally, and
\* that the loop goes on with the next blob of the page
SweepBlobStep ==
    \A p \in Procs :
        (proc[p].op = "sync" /\ proc[p].pc = "y_blob" /\ proc[p]' # proc[p]) =>
            /\ Counted(p, "processed")
            /\ proc[p].j < Len(proc[p].page)
                  => proc[p].pc' = "y_blob" /\ proc[p].j' = proc[p].j + 1
            /\ IF IsMarkerName(SweepBlob(p).name)
               THEN index' = index /\ proc[p].tally'.errors = proc[p].tally.errors
               ELSE \/ index' = index /\ Counted(p, "errors")
                    \/ /\ proc[p].tally'.errors = proc[p].tally.errors
                       /\ IF SweepKey(p) \notin DOMAIN index.items
                          THEN /\ Counted(p, "created")
                               /\ SweepKey(p) \in DOMAIN index'.items
                               /\ index'.items[SweepKey(p)].blob_name
                                     = SweepBlob(p).name
                          ELSE IF proc[p].force_update
                          THEN /\ Counted(p, "updated")
                               /\ index'.items[SweepKey(p)].blob_name
                                     = SweepBlob(p).name
                               /\ index'.items[SweepKey(p)].folder_path
                                     = SweepBlob(p).folder_path
                          ELSE index' = index
            /\ \A k \in DOMAIN index.items :
                   k # SweepKey(p) =>
                       k \in DOMAIN index'.items /\ index'.items[k] = index.items[k]

\* C22: the sweep, per blob: a folder marker is skipped without touching
\* the index; for another key, a missing record is created, an existing one
\* is updated when force_update is set and left unchanged when it is not;
\* an error on one blob is counted and the sweep goes on with the next.
SweepPerBlob == [][SweepBlobStep]_vars

\* C22, witness: a sweep has ended after creating, updating and failing on
\* blobs, and after skipping the marker.
SweepMixedSeen ==
    \E p \in Procs :
        /\ proc[p].op = "sync" /\ proc[p].pc = "done" /\ proc[p].stage # "failed"
        /\ proc[p].tally.created > 0 /\ proc[p].tally.updated > 0
        /\ proc[p].tally.errors > 0
        /\ \E i \in 1..Len(proc[p].seen) : IsMarkerName(proc[p].seen[i][2])

SweepDone(p) ==
    proc[p].op = "sync" /\ proc[p].pc = "done" /\ proc[p].stage # "failed"

\* The non-marker blobs of the containers the sweep of p went over
SweptBlobs(p) ==
    {cn \in UNION {{<<proc[p].containers[i], name>> :
                        name \in DOMAIN store[proc[p].containers[i]]} :
                    i \in 1..Len(proc[p].containers)} : ~IsMarkerName(cn[2])}

\* C26: after a sweep that ended with zero errors, every non-marker blob of
\* the swept containers has a record in its media_type partition whose
\* blob_name is the key of the blob and whose folder_path is its folder.
SweepIndexesEveryBlob ==
    \A p \in Procs :
        (SweepDone(p) /\ proc[p].tally.errors = 0) =>
            \A cn \in SweptBlobs(p) :
                /\ HasRecord(cn[2], cn[1])
                /\ index.items[RecordKey(cn[2], cn[1])].blob_name = cn[2]
                /\ index.items[RecordKey(cn[2], cn[1])].folder_path
                      = CurrentFolder(cn[2])

----------------------------------------------------------------------------
(* Termination of the sweep *)

\* The background task is run to its end by the event loop
SweepRun ==
    \E p \in Procs : SyncContainers(p) \/ SyncList(p) \/ SyncBlob(p)

SpecSweepFair == SweepInit /\ [][SweepNext]_vars /\ WF_vars(SweepRun)

NoRepeats(seq) ==
    \A i, k \in 1..Len(seq) : seq[i] = seq[k] => i = k

\* No blob is visited twice, and a sweep that ended has visited every blob
\* of its containers
SweepVisitsOnce ==
    \A p \in Procs :
        proc[p].op = "sync" =>
            /\ NoRepeats(proc[p].seen)
            /\ SweepDone(p) =>
                   Range(proc[p].seen) =
                       UNION {{<<proc[p].containers[i], name>> :
                                  name \in DOMAIN store[proc[p].containers[i]]} :
                              i \in 1..Len(proc[p].containers)}

\* No step writes or deletes a blob, and none deletes a record
SweepReadOnlyStep ==
    /\ store' = store
    /\ \A k \in DOMAIN index.items : k \in DOMAIN index'.items

SweepRunning ==
    \E p \in Procs : proc[p].op = "sync" /\ proc[p].pc # "done"

SweepEnded ==
    \E p \in Procs : proc[p].op = "sync" /\ proc[p].pc = "done"

\* C30: the sweep ends and only reads the object store: over containers
\* that do not change, each container's page loop ends after visiting each
\* blob exactly once; no step writes or deletes a blob or deletes a record.
SweepTerminatesReadOnly ==
    /\ [](SweepVisitsOnce)
    /\ [][SweepReadOnlyStep]_vars
    /\ (SweepRunning ~> SweepEnded)

\* C30, witness: a sweep over both containers, one blob per page, has ended
\* after visiting all four blobs.
SweepManyPagesSeen ==
    \E p \in Procs :
        /\ SweepDone(p) /\ proc[p].limit = 1 /\ Len(proc[p].containers) = 2
        /\ Len(proc[p].seen) = 4

----------------------------------------------------------------------------
(* The index write of the create paths *)

\* A save is about to write the record of the blob it uploaded to an index
\* that already holds a record of that id in that partition
WritesExistingId(p) ==
    /\ proc[p].op = "save" /\ proc[p].pc = "s_index" /\ proc[p].cosmos
    /\ HasRecord(proc[p].blob_name, proc[p].container)

\* C23: the index write of create is an idempotent upsert keyed by
\* (id, media_type): written to a reachable index, a record whose id exists
\* is accepted and replaces the record held.
IndexWriteIsUpsert ==
    \A p \in Procs :
        WritesExistingId(p) =>
            LET rec == AssetRecord(proc[p].blob_name, proc[p].container,
                                   proc[p].folder)
            IN  /\ ~CreateRefused(index.items, rec, FALSE)
                /\ create_asset_metadata(index.items, rec, FALSE)
                       [RecordKey(proc[p].blob_name, proc[p].container)] = rec

----------------------------------------------------------------------------
(* The tally of a batch delete *)

\* The blobs the batch of p has removed
RemovedBy(p) == proc[p].present \ DOMAIN store[proc[p].container]

\* C27: the tally of an answered synchronous batch delete matches its
\* effect, for any list of N names, repeated names included: the number of
\* names reported true is the number of blobs removed, success is true
\* exactly when every requested blob existed and was removed, and total is N.
BatchDeleteTallyTruthful ==
    \A p \in Procs :
        (SyncBatchDeleteDone(p) /\ proc[p].resp.status = 200) =>
            /\ Count(proc[p].resp.results) = Cardinality(RemovedBy(p))
            /\ proc[p].resp.success
                   = (\A j \in 1..Len(proc[p].names) :
                          proc[p].names[j] \in RemovedBy(p))
            /\ proc[p].resp.total = Len(proc[p].names)

----------------------------------------------------------------------------
(* The answer of a synchronous move *)

\* C24: the success flag of a synchronous single-asset move is truthful: it
\* answers success = true, moved = true only if the copy-then-delete
\* returned True, the content is at the destination key and the source key
\* is absent; when the read or the copy fails the caller is not told success.
SyncMoveAnswerTruthful ==
    \A p \in Procs :
        (/\ proc[p].op = "move" /\ proc[p].pc = "done"
         /\ ~proc[p].resp.background_task
         /\ proc[p].resp.success /\ proc[p].resp.moved) =>
            /\ proc[p].ret = "true"
            /\ DestHolds(p)
            /\ ~BlobExists(proc[p].container, CurName(p))

----------------------------------------------------------------------------
(* Moves of blobs that carry no metadata *)

\* An image uploaded with its metadata, and one put into the container
\* without any (properties.metadata is empty)
MoveBareInitStore ==
    [c \in Containers |->
        IF c = IMAGES
        THEN (CatPng :> Blob(Bytes(1), "image/png", ("prompt" :> "one")))
             @@ (DogPng :> Blob(Bytes(2), "image/png", NoMeta))
        ELSE <<>>]

MoveBareInit ==
    /\ store = MoveBareInitStore
    /\ index = NoIndex
    /\ proc = [p \in Procs |-> IdleProc]

MoveBareNext ==
    \E p \in Procs :
        \/ \E n \in (DOMAIN store[IMAGES]) \cup {GhostPng},
              t \in {<<>>, <<"pets">>, <<"toys">>} :
               MoveStart(p, n, IMAGES, "none", t)
        \/ MoveCheckSource(p)
        \/ MoveEnsureFolder(p)
        \/ MoveCheckTarget(p)
        \/ MoveReadSize(p)
        \/ ItemSteps(p)
        \/ Return(p)

SpecMoveBare == MoveBareInit /\ [][MoveBareNext]_vars

\* C28: the source check of move_asset depends only on whether the blob
\* exists: it turns a source down exactly when the blob is absent, so a blob
\* with an empty metadata map is accepted as a source.
SourceCheckIsExistence ==
    \A p \in Procs :
        (/\ proc[p].op = "move" /\ proc[p].pc = "m_source"
         /\ CurName(p) # <<>>
         /\ ResolveContainer(proc[p].container, proc[p].media_type) # "") =>
            LET c == ResolveContainer(proc[p].container, proc[p].media_type)
            IN  SourceMissing(get_asset_metadata(c, CurName(p)))
                    = ~BlobExists(c, CurName(p))

----------------------------------------------------------------------------
(* gallery.py: GET /images and GET /videos, and reading the gallery page by *)
(* page                                                                     *)

\* get_gallery_videos, "Process video results": every blob of the page
\* becomes an item
AllItemsOf(results, media_type) ==
    [i \in 1..Len(results.blobs) |->
        GalleryItem(results.blobs[i], media_type, results.container)]

ListingResp(items, results) ==
    [items |-> items, total |-> Len(items),
     continuation_token |-> results.continuation_token]

\* One listing of a single container, answered with all items of the page
ListContainer(p, op, limit, continuation_token, prefix, folder_path, results, items) ==
    /\ Free(p)
    /\ LET q == [IdleProc EXCEPT !.op = op, !.pc = "done", !.limit = limit,
                                 !.marker = continuation_token,
                                 !.target = folder_path,
                                 !.prefix = GalleryPrefix(prefix, folder_path)]
       IN  \/ proc' = [proc EXCEPT ![p] = [q EXCEPT !.resp = ErrorResp(500)]]
           \/ proc' = [proc EXCEPT ![p] =
                  [q EXCEPT !.listings = 1,
                            !.result = ListingResp(items, results),
                            !.resp = [NoResp EXCEPT !.status = 200,
                                                    !.success = TRUE,
                                                    !.total = Len(items)]]]
    /\ UNCHANGED <<store, index>>

\* get_gallery_images: the page of the images container without the markers
get_gallery_images(p, limit, continuation_token, prefix, folder_path) ==
    LET results == list_blobs(store, IMAGES, GalleryPrefix(prefix, folder_path),
                              limit, continuation_token)
    IN  ListContainer(p, "gallery_images", limit, continuation_token, prefix,
                      folder_path, results, GalleryItemsOf(results, "image"))

\* get_gallery_videos: the page of the videos container
get_gallery_videos(p, limit, continuation_token, prefix, folder_path) ==
    LET results == list_blobs(store, VIDEOS, GalleryPrefix(prefix, folder_path),
                              limit, continuation_token)
    IN  ListContainer(p, "gallery_videos", limit, continuation_token, prefix,
                      folder_path, results, AllItemsOf(results, "video"))

ItemKeys(items) == [i \in 1..Len(items) |-> <<items[i].container, items[i].name>>]

\* The client asks get_gallery_items for the next page with the
\* continuation_token of the answer it holds; seen is the history of the
\* items it was given so far
GalleryNextPage(p) ==
    /\ proc[p].op = "gallery" /\ proc[p].pc = "done"
    /\ proc[p].resp.status = 200
    /\ proc[p].result.continuation_token # NoToken
    /\ proc' = [proc EXCEPT ![p].pc = "g_images",
                            ![p].marker = proc[p].result.continuation_token,
                            ![p].seen = proc[p].seen \o ItemKeys(proc[p].result.items),
                            ![p].image_results = <<>>,
                            ![p].result = <<>>,
                            ![p].resp = NoResp]
    /\ UNCHANGED <<store, index>>

----------------------------------------------------------------------------
(* The world of the page-by-page reads *)

\* Two images, one of them in toys/, two videos, one of them in toys/, and
\* the marker of toys/ in both containers
BrowseInitStore ==
    [c \in Containers |->
        IF c = IMAGES
        THEN (CatPng :> Blob(Bytes(1), "image/png", NoMeta))
             @@ (Toys \o DogPng :> Blob(Bytes(2), "image/png", ("folder_path" :> Toys)))
             @@ (FolderMarkerName(Toys) :> MarkerBlob(Toys))
        ELSE (ClipMp4 :> Blob(Bytes(3), "video/mp4", NoMeta))
             @@ (Toys \o ClipMp4 :> Blob(Bytes(4), "video/mp4", ("folder_path" :> Toys)))
             @@ (FolderMarkerName(Toys) :> MarkerBlob(Toys))]

BrowseInit ==
    /\ store = BrowseInitStore
    /\ index = NoIndex
    /\ proc = [p \in Procs |-> IdleProc]

\* Page sizes below the default
MaxPage == 2

PageInputs == (1..MaxPage) \cup {DefaultLimit}

BrowseNext ==
    \E p \in Procs :
        \/ \E limit \in PageInputs :
               GalleryStart(p, limit, 0, NoToken, <<>>, None)
        \/ GalleryListImages(p)
        \/ GalleryListVideos(p)
        \/ GalleryNextPage(p)
        \/ \E limit \in PageInputs, continuation_token \in {NoToken, CatPng},
              folder_path \in {None, <<"toys">>} :
               get_gallery_images(p, limit, continuation_token, <<>>, folder_path)
        \/ \E limit \in PageInputs, continuation_token \in {NoToken, CatPng},
              folder_path \in {None, <<"toys">>} :
               get_gallery_videos(p, limit, continuation_token, <<>>, folder_path)
        \/ Return(p)

SpecBrowse == BrowseInit /\ [][BrowseNext]_vars

\* The assets of both containers: every key that is not a folder marker
AllAssets ==
    {cn \in UNION {{<<c, name>> : name \in DOMAIN store[c]} : c \in Containers} :
        ~IsMarkerName(cn[2])}

\* The answer p holds is the last page of a read that began without a token
LastPage(p) ==
    /\ proc[p].op = "gallery" /\ proc[p].pc = "done" /\ proc[p].resp.status = 200
    /\ proc[p].result.continuation_token = NoToken

\* C25: the store-path pagination is complete and free of duplicates: a
\* read that starts with no token and calls get_gallery_items with the
\* returned token until it is null, over an unchanged store, has been given
\* every non-marker asset of both containers exactly once.
PaginationComplete ==
    \A p \in Procs :
        LastPage(p) =>
            LET given == proc[p].seen \o ItemKeys(proc[p].result.items)
            IN  /\ NoRepeats(given)
                /\ Range(given) = AllAssets

\* C29: no gallery listing returns a folder marker: the combined, the image
\* and the video listing leave out every key that ends in .folder.
ListingsSkipMarkers ==
    \A p \in Procs :
        (/\ proc[p].op \in {"gallery", "gallery_images", "gallery_videos"}
         /\ proc[p].pc = "done" /\ proc[p].resp.status = 200) =>
            \A i \in 1..Len(proc[p].result.items) :
                ~IsMarkerName(proc[p].result.items[i].name)

====
